---- MODULE Spec2Model ----
(***************************************************************************)
(* MatchesService (src/src/lib/experiments/tracking.ts): the keyed TTL     *)
(* cache inside fetchJson, the sportradar token holder, and getPayload,    *)
(* the pipeline that fetches the event list and the reference data,        *)
(* enriches the events in batches of five and filters and sorts them.      *)
(*                                                                         *)
(* Time is counted in whole seconds.  Date.now() is `now`; a TTL of        *)
(* 30 * 1000 ms is 30; tokenExpiry, parseInt(exp) * 1000 ms in the code,   *)
(* is exp.  All comparisons of the code are between millisecond values     *)
(* that are multiples of 1000 here, so they are kept exactly.              *)
(*                                                                         *)
(* An optional JavaScript value is a sequence of length at most one:       *)
(* None is undefined (or null), Some(x) is x.                              *)
(***************************************************************************)
EXTENDS Integers, Sequences, FiniteSets, TLC

\* ------------------------------------------------------------- bounds

\* longest upstream event list
MaxEvents == 6
\* longest event list whose events are drawn freely from EventPool
MaxSmall == 2
\* upstream responses of one behaviour that are not the nominal 200 answer
MaxOdd == 1
\* clock steps of one behaviour
MaxTicks == 2
\* fetchJson invocations of the stand-alone cache behaviours
MaxCalls == 3
\* requests that may be outstanding while responses arrive in any order;
\* with more outstanding, the oldest MaxReorder requests are answered first
FreeOrder == 3
MaxReorder == 1
\* longest market configuration of the stand-alone config behaviours
MaxConfigs == 3
\* longest competition list of the stand-alone competition behaviours
MaxCompetitions == 2
\* longest event list of the stand-alone score behaviours
MaxScored == 3
\* the ids crypto.randomUUID() and the imports draw from: 1..MaxBets
MaxBets == 2
\* longest imported list
MaxImport == 2
\* number of getTracker calls
MaxCallers == 2

\* ------------------------------------------------- program constants

\* events.slice(i, i + 5), i += 5
BatchSize == 5
\* exp= of the hardcoded fallback token
HardcodedExp == 1763848591
\* 10 * 60 * 1000 ms
MarketConfigTtl == 600
\* 60 * 60 * 1000 ms
CompetitionsTtl == 3600
\* 30 * 1000 ms
PercentagesTtl == 30
\* status === 2 of the "ht" filter
HalfTimeStatus == 2
\* config.mt === 4: the main market type
MainMarketType == 4
\* { status: 500 } of the route handlers
InternalServerError == 500
\* the status of NextResponse.json(body) without init
Ok == 200
\* seconds per clock step
TickSec == 20

\* status: 401 of the auth gate
Unauthorized == 401

\* ------------------------------------------------------------ options

None == <<>>
Some(x) == <<x>>
IsSome(o) == Len(o) > 0
Get(o) == o[1]
\* x ?? d
Nullish(o, d) == IF IsSome(o) THEN o[1] ELSE d
\* truthiness of an optional number: undefined and 0 are falsy
TruthyNum(o) == IsSome(o) /\ o[1] # 0

Min(a, b) == IF a < b THEN a ELSE b

\* obj.f, undefined (None) when obj has no field f
Prop(obj, f) == IF f \in DOMAIN obj THEN obj[f] ELSE None

\* {} : a map without keys
EmptyMap == << >>

\* ------------------------------------------------------------- tokens

(* A token string is a sequence of ~-separated segments key=value; v is   *)
(* the value when it is a run of digits, None otherwise.                  *)
Seg(k, v) == [k |-> k, v |-> v]

\* "exp=1763848591~acl=/*~data=...~hmac=..."
HardcodedToken ==
    << Seg("exp", Some(HardcodedExp)), Seg("acl", None),
       Seg("data", None), Seg("hmac", None) >>

RECURSIVE ExpMatchFrom(_, _)
ExpMatchFrom(tok, k) ==
    IF k > Len(tok) THEN None
    ELSE IF tok[k].k = "exp" /\ IsSome(tok[k].v) THEN tok[k].v
    ELSE ExpMatchFrom(tok, k + 1)

\* token.match(/exp=(\d+)/): the digits of the first exp=<digits>, if any
ExpMatch(tok) == ExpMatchFrom(tok, 1)

\* the values process.env.SPORTRADAR_TOKEN is given: unset, a token that
\* outlives the clock, one that expired before it, one without exp=
EnvTokens ==
    { None,
      Some(<< Seg("exp", Some(HardcodedExp + CompetitionsTtl)), Seg("hmac", None) >>),
      Some(<< Seg("exp", Some(HardcodedExp - CompetitionsTtl)), Seg("hmac", None) >>),
      Some(<< Seg("acl", None), Seg("exp", None), Seg("hmac", None) >>) }

\* the clock starts one step before the hardcoded token expires
StartTime == HardcodedExp - TickSec

\* ------------------------------------------------------------- events

Ev(i, s, bri, ci, d, hn, m) ==
    [i |-> i, s |-> s, bri |-> bri, ci |-> ci, d |-> d, hn |-> hn, m |-> m]

\* a live event that carries standings and a head-to-head block in the list
EvLive ==
    [ standings  |-> Some([overAll |-> << "listed standings", 101 >>]),
      headToHead |-> Some(<< "listed headToHead", 101 >>) ]
    @@ Ev(Some(101), Some(1), Some(9001), Some(7), Some(50), Some("B"), Some(<<11, 12, 13>>))
EvUpcoming  == Ev(Some(102), Some(0), None, Some(8), Some(40), Some("A"), None)
EvHalfTime  == Ev(None, Some(HalfTimeStatus), Some(9003), Some(7), Some(60), Some("C"), Some(<<21>>))
EvNoStatus  == Ev(Some(104), None, Some(9004), None, None, None, Some(<<>>))
EvSecond    == Ev(Some(0), Some(HalfTimeStatus + 1), None, Some(8), Some(40), Some("A"),
                  Some(<<31, 32, 33, 34, 35, 36, 37>>))

EventPool == {EvLive, EvUpcoming, EvHalfTime, EvNoStatus, EvSecond}

\* a live event with every id, the k-th of a long list
FullEvent(k) ==
    Ev(Some(200 + k), Some(1), Some(9200 + k), Some(7), Some(100 - k), Some("D"),
       Some([j \in 1..(k % 3) |-> 40 + j]))

\* an event that has started and has neither id
BareEvent(k) ==
    Ev(None, Some(3), None, Some(8), Some(k), Some("E"), None)

SmallLists == UNION {[1..n -> EventPool] : n \in 0..MaxSmall}
FullLists  == {[k \in 1..n |-> FullEvent(k)] : n \in BatchSize..MaxEvents}
BareLists  == {[k \in 1..n |-> BareEvent(k)] : n \in (MaxSmall + 1)..MaxEvents}


\* -------------------------------------------------------------- state

VARIABLES
    now,              \* Date.now(), in seconds
    envToken,         \* process.env.SPORTRADAR_TOKEN
    cache,            \* MatchesService.cache: url -> [value, expires]
    sportradarToken,  \* MatchesService.sportradarToken
    tokenExpiry,      \* MatchesService.tokenExpiry
    calls,            \* the promises of the current stage and every request still in flight
    odd,              \* responses so far that were not the nominal answer
    phase,            \* where getPayload stands
    initial,          \* the five results of the first Promise.all
    includeUpcoming,  \* the includeUpcoming query parameter
    events,           \* the status-filtered event list
    i,                \* the loop variable: events before the current batch
    sportradarTokenValue, \* the token getPayload obtained
    enrichedMatches,  \* the enriched list, as it stands before the caller filters
    batches,          \* the batches issued so far, each <<first, last>> (history)
    params,           \* sort, competition and status of the request
    response,         \* what getPayload resolved with
    reply,            \* the HTTP response of the route handler
    trackerInstance,  \* the module-level singleton of getTracker
    created,          \* how many PerformanceTrackers were constructed (history)
    initPromise,      \* where trackerInstance.init() stands
    db,               \* PerformanceTracker.db: TRUE for an open database
    bets,             \* PerformanceTracker.bets, the in-memory list
    store,            \* the object store 'bets' of IndexedDB: id -> record
    callers,          \* the getTracker calls: where each stands
    lastCall,         \* the last tracker call: method, outcome, whether it changed anything
    username,         \* process.env.BASIC_AUTH_USER
    password,         \* process.env.BASIC_AUTH_PASS
    request,          \* the request the auth gate was last called with
    verdict           \* what each of the two proxy functions answered to it

vars == << now, envToken, cache, sportradarToken, tokenExpiry, calls, odd,
           phase, initial, includeUpcoming, events, i, sportradarTokenValue,
           enrichedMatches, batches, params, response, reply,
           trackerInstance, created, initPromise, db, bets, store, callers, lastCall,
           username, password, request, verdict >>

gateVars == << username, password, request, verdict >>
trackerVars == << trackerInstance, created, initPromise, db, bets, store, callers, lastCall >>
pipelineVars == << now, envToken, cache, sportradarToken, tokenExpiry, calls, odd,
                   phase, initial, includeUpcoming, events, i, sportradarTokenValue,
                   enrichedMatches, batches, params, response, reply >>

serviceVars == << cache, sportradarToken, tokenExpiry >>
runVars == << phase, initial, includeUpcoming, events, i, sportradarTokenValue,
              enrichedMatches, batches, params, response, reply >>

\* ---------------------------------------------------------- upstream

RefTypes == {"marketConfig", "competitions", "playPercentages", "matchPopularity"}

\* the eight id-keyed per-event calls, in the order getPayload maps them
EventTypes ==
    << "detail", "statistics", "headToHead", "lastMatches", "analysis",
       "missingPlayers", "refereeStats", "standings" >>

\* what fetch() ends with: a 2xx response with a JSON body, a non-2xx
\* response, a network error, a body that is not JSON
NetOutcomes == {"ok", "http", "neterr", "badjson"}

NoPayload == [data |-> None]

\* the event lists the upstream answers with; the long lists are explored
\* with no token configured
EventLists == IF IsSome(envToken) THEN SmallLists ELSE SmallLists \cup FullLists \cup BareLists

DetailMarkets(id) == << id * 10 + 1, id * 10 + 2 >>

\* a Competition of the competitions endpoint: id, parent, name, country
Competition(id, p, n, cid) == [i |-> id, p |-> p, n |-> n, cid |-> cid]

\* the competitions the upstream lists: one with every field, one without
\* parent and country, one with id 0
CompetitionList ==
    << Competition(7, Some(1), Some("L7"), Some("TR")),
       Competition(8, None, Some("L8"), None),
       Competition(0, Some(2), Some("L0"), Some("EN")) >>

\* a MarketConfigEntry: id, market type, market sub type
MarketConfig(id, mt, mst) == [i |-> id, mt |-> mt, mst |-> mst]

\* Object.values of the market configuration the upstream lists: a
\* non-main entry ahead of the main-typed (type 4) entry of its sub type,
\* an entry without type, one without sub type
MarketConfigList ==
    << MarketConfig(1, 1, 5), MarketConfig(2, MainMarketType, 5),
       MarketConfig(3, 0, 6), MarketConfig(4, MainMarketType, 0) >>

\* the event whose detail carries standings and last matches of its own
DetailCarriesBlocks(id) == id = 104

\* the event whose statistics come without a tournament standings model
StatisticsLackStandings(id) == id = 102

\* the usual 200 answer of the upstream to a request; the answers to the
\* reference requests change with the time they are given at
Nominal(slot) ==
    CASE slot.typ = "competitions" ->
            [data |-> Some(CompetitionList), message |-> now]
      [] slot.typ = "marketConfig" ->
            [data |-> Some([m |-> Some(MarketConfigList)]), message |-> now]
      [] slot.typ \in RefTypes -> [data |-> Some(<< slot.typ, now >>)]
      [] slot.typ = "detail" ->
            [data |-> Some(
                (IF DetailCarriesBlocks(Get(slot.id))
                 THEN [ standings   |-> Some([overAll |-> << "detail standings", Get(slot.id) >>]),
                        lastMatches |-> Some(<< "detail lastMatches", Get(slot.id) >>) ]
                 ELSE << >>)
                @@ [s |-> None, m |-> Some(DetailMarkets(Get(slot.id))), markets |-> None])]
      [] slot.typ = "statistics" ->
            [data |-> Some([tag |-> << slot.typ, Get(slot.id) >>,
                            tournamentStandingsModel |->
                                IF StatisticsLackStandings(Get(slot.id)) THEN None
                                ELSE Some(<< "ts", Get(slot.id) >>)])]
      [] slot.typ = "sportradar" ->
            [doc |-> Some(<< [tag |-> << "doc", Get(slot.id) >>] >>), data |-> None]
      [] slot.typ = "standings" ->
            [data |-> Some([overAll |-> << "standings", Get(slot.id) >>])]
      [] OTHER -> [data |-> Some(<< slot.typ, Get(slot.id) >>)]

\* the other 200 answers the upstream gives
Variants(slot) ==
    CASE slot.typ = "events" ->
            {[data |-> Some([events |-> l]), isSuccess |-> TRUE, message |-> "ok"] :
                l \in EventLists}
            \cup {[data |-> None, isSuccess |-> FALSE, message |-> "error"]}
      [] slot.typ = "detail" ->
            { NoPayload,
              [data |-> Some([s |-> Some(HalfTimeStatus), m |-> None, markets |-> None])],
              [data |-> Some([s |-> Some(0), m |-> Some(<<>>), markets |-> None])],
              [data |-> Some([s |-> Some(1), m |-> Some(DetailMarkets(Get(slot.id))),
                              markets |-> None])],
              [data |-> Some([s |-> None, m |-> None,
                              markets |-> Some(<< Get(slot.id) * 10 + 3 >>)])] }
      [] slot.typ = "statistics" ->
            { NoPayload,
              [data |-> Some([tag |-> << slot.typ, Get(slot.id) >>,
                              tournamentStandingsModel |-> None])] }
      [] slot.typ = "sportradar" ->
            { [doc |-> None, data |-> Some([tag |-> << "data", Get(slot.id) >>])],
              [doc |-> Some(<<>>), data |-> None],
              [doc |-> None, data |-> None] }
      [] OTHER -> {NoPayload}

PayloadsFor(slot) ==
    IF slot.typ = "events" THEN Variants(slot) ELSE {Nominal(slot)} \cup Variants(slot)

\* an answer that counts against MaxOdd; every event list is a usual answer
IsOdd(slot, out, p) ==
    IF slot.typ = "events" THEN out # "ok" ELSE out # "ok" \/ p # Nominal(slot)

\* ---------------------------------------------------------- fetchJson

Url(typ, id) == << typ, id >>

Slot(typ, id, ev, ttl, net, st, val) ==
    [typ |-> typ, id |-> id, ev |-> ev, ttl |-> ttl, net |-> net, st |-> st, val |-> val]

\* CacheHit with the comparison of the expiry turned round
CacheHitInverted(c, url, ttl, t) ==
    ttl > 0 /\ url \in DOMAIN c /\ c[url].expires < t

\* cached && cached.expires > Date.now(), under ttlMs && ttlMs > 0
CacheHit(c, url, ttl, t) ==
    ttl > 0 /\ url \in DOMAIN c /\ c[url].expires > t

\* fetchJson up to its first await: the cached value, or a request sent.
\* An omitted ttlMs is 0.
fetchJson(typ, id, ev, ttl) ==
    IF CacheHit(cache, Url(typ, id), ttl, now)
    THEN Slot(typ, id, ev, ttl, FALSE, "value", Some(cache[Url(typ, id)].value))
    ELSE Slot(typ, id, ev, ttl, TRUE, "pending", None)

\* fetchJsonDone with a non-2xx response rejecting too
fetchJsonDoneHttpThrows(slot, out, p) ==
    IF out = "ok" THEN [slot EXCEPT !.st = "value", !.val = Some(p)]
    ELSE [slot EXCEPT !.st = "thrown"]

\* fetchJson from the response on: null for a non-2xx response, the body
\* otherwise; a network error or a body that is not JSON rejects
fetchJsonDone(slot, out, p) ==
    CASE out = "ok"   -> [slot EXCEPT !.st = "value", !.val = Some(p)]
      [] out = "http" -> [slot EXCEPT !.st = "null"]
      [] OTHER        -> [slot EXCEPT !.st = "thrown"]

\* CacheStore keeping a single entry, under the competitions URL
CacheStoreOneKey(c, slot, out, p, t) ==
    IF out = "ok" /\ slot.typ # "sportradar" /\ slot.ttl > 0
    THEN (Url("competitions", None) :> [value |-> p, expires |-> t + slot.ttl]) @@ c
    ELSE c

\* CacheStore dropping the entry of the URL when the fetch fails
CacheStoreDropOnFailure(c, slot, out, p, t) ==
    IF out = "ok" /\ slot.typ # "sportradar" /\ slot.ttl > 0
    THEN (Url(slot.typ, slot.id) :> [value |-> p, expires |-> t + slot.ttl]) @@ c
    ELSE [u \in DOMAIN c \ {Url(slot.typ, slot.id)} |-> c[u]]

\* CacheStore without the test of ttlMs
CacheStoreAnyTtl(c, slot, out, p, t) ==
    IF out = "ok" /\ slot.typ # "sportradar"
    THEN (Url(slot.typ, slot.id) :> [value |-> p, expires |-> t + slot.ttl]) @@ c
    ELSE c

\* this.cache.set(url, { value: json, expires: Date.now() + ttlMs })
CacheStore(c, slot, out, p, t) ==
    IF out = "ok" /\ slot.typ # "sportradar" /\ slot.ttl > 0
    THEN (Url(slot.typ, slot.id) :> [value |-> p, expires |-> t + slot.ttl]) @@ c
    ELSE c

\* fetchSportradarStats: the request is sent at once
fetchSportradarStats(betradarId, token, ev) ==
    Slot("sportradar", Some(betradarId), ev, 0, TRUE, "pending", None)

\* fetchSportradarStats from the response on: every failure is caught
fetchSportradarStatsDone(slot, out, p) ==
    IF out = "ok" THEN [slot EXCEPT !.st = "value", !.val = Some(p)]
    ELSE [slot EXCEPT !.st = "null"]

\* Promise.resolve(null)
emptyPromise(typ, ev) == Slot(typ, None, ev, 0, FALSE, "null", None)

PendingIdx == {k \in 1..Len(calls) : calls[k].st = "pending"}

InFlight == Cardinality(PendingIdx)

\* the oldest n requests in flight among calls[k..]
RECURSIVE OldestFrom(_, _)
OldestFrom(k, n) ==
    IF n = 0 \/ k > Len(calls) THEN {}
    ELSE IF calls[k].st = "pending" THEN {k} \cup OldestFrom(k + 1, n - 1)
    ELSE OldestFrom(k + 1, n)

\* the requests whose response may arrive next
SettleChoices ==
    IF Cardinality(OldestFrom(1, FreeOrder + 1)) <= FreeOrder
    THEN OldestFrom(1, FreeOrder)
    ELSE OldestFrom(1, MaxReorder)

\* a response (or a failure) arrives for request k
Settle(k) ==
    /\ calls[k].st = "pending"
    /\ \E out \in NetOutcomes :
         \E p \in (IF out = "ok" THEN PayloadsFor(calls[k]) ELSE {NoPayload}) :
            /\ IsOdd(calls[k], out, p) => odd < MaxOdd
            /\ odd' = IF IsOdd(calls[k], out, p) THEN odd + 1 ELSE odd
            /\ calls' = [calls EXCEPT ![k] =
                            IF calls[k].typ = "sportradar"
                            THEN fetchSportradarStatsDone(calls[k], out, p)
                            ELSE fetchJsonDone(calls[k], out, p)]
            /\ cache' = CacheStore(cache, calls[k], out, p, now)
    /\ UNCHANGED << now, envToken, sportradarToken, tokenExpiry >>
    /\ UNCHANGED runVars
    /\ UNCHANGED trackerVars
    /\ UNCHANGED gateVars

\* a response arrives for request k from an upstream that fails on the
\* initial fetches only, any number of them, and then with a non-2xx status
SettleInitial(k) ==
    /\ calls[k].st = "pending"
    /\ \E out \in (IF calls[k].ev = 0 THEN {"ok", "http"} ELSE {"ok"}) :
         \E p \in (IF out # "ok" THEN {NoPayload}
                   ELSE IF calls[k].typ = "events" THEN PayloadsFor(calls[k])
                   ELSE {Nominal(calls[k])}) :
            /\ calls' = [calls EXCEPT ![k] =
                            IF calls[k].typ = "sportradar"
                            THEN fetchSportradarStatsDone(calls[k], out, p)
                            ELSE fetchJsonDone(calls[k], out, p)]
            /\ cache' = CacheStore(cache, calls[k], out, p, now)
    /\ UNCHANGED << now, envToken, sportradarToken, tokenExpiry, odd >>
    /\ UNCHANGED runVars
    /\ UNCHANGED trackerVars
    /\ UNCHANGED gateVars

\* time passes
Tick ==
    /\ now < StartTime + MaxTicks * TickSec
    /\ now' = now + TickSec
    /\ UNCHANGED << envToken, cache, sportradarToken, tokenExpiry, calls, odd >>
    /\ UNCHANGED runVars
    /\ UNCHANGED trackerVars
    /\ UNCHANGED gateVars

\* ------------------------------------------------------ token holder

\* fetchSportradarToken reusing the held token while it is unexpired,
\* whether or not it is the configured one
fetchSportradarTokenReuseAny(env, tok, expiry, t) ==
    IF IsSome(tok) /\ expiry > t
    THEN [ret |-> tok, tok |-> tok, exp |-> expiry]
    ELSE IF IsSome(env)
         THEN [ret |-> env, tok |-> env,
               exp |-> IF IsSome(ExpMatch(Get(env))) THEN Get(ExpMatch(Get(env))) ELSE expiry]
         ELSE [ret |-> Some(HardcodedToken), tok |-> Some(HardcodedToken),
               exp |-> IF IsSome(ExpMatch(HardcodedToken))
                       THEN Get(ExpMatch(HardcodedToken)) ELSE expiry]

\* fetchSportradarToken: ret is what it returns, tok and exp what it leaves
\* in sportradarToken and tokenExpiry.  Nothing in its try block throws.
fetchSportradarToken(env, tok, expiry, t) ==
    IF IsSome(env)
    THEN IF tok = env /\ expiry > t
         THEN [ret |-> tok, tok |-> tok, exp |-> expiry]
         ELSE [ret |-> env, tok |-> env,
               exp |-> IF IsSome(ExpMatch(Get(env))) THEN Get(ExpMatch(Get(env))) ELSE expiry]
    ELSE IF IsSome(tok) /\ expiry > t
         THEN [ret |-> tok, tok |-> tok, exp |-> expiry]
         ELSE [ret |-> Some(HardcodedToken), tok |-> Some(HardcodedToken),
               exp |-> IF IsSome(ExpMatch(HardcodedToken))
                       THEN Get(ExpMatch(HardcodedToken)) ELSE expiry]

\* ----------------------------------------------------------- getPayload

\* getEventId taking every present id, 0 included, for a usable one
getEventIdZeroUsable(event) == event.i

\* getEventId: String(rawId) when the id is truthy, "" (None) otherwise
getEventId(event) == IF TruthyNum(event.i) THEN Some(Get(event.i)) ELSE None

\* the result a settled promise resolved with: the body, or null
Result(slot) == IF slot.st = "value" THEN slot.val ELSE None

\* the result of the initial fetch of a type
InitialResult(typ) ==
    Result(calls[CHOOSE k \in 1..Len(calls) : calls[k].typ = typ /\ calls[k].ev = 0])

\* getPayload up to its first await: the five fetches, market config first
Start ==
    /\ phase = "idle"
    /\ calls' = << fetchJson("marketConfig", None, 0, MarketConfigTtl),
                   fetchJson("events", None, 0, 0),
                   fetchJson("competitions", None, 0, CompetitionsTtl),
                   fetchJson("playPercentages", None, 0, PercentagesTtl),
                   fetchJson("matchPopularity", None, 0, PercentagesTtl) >>
    /\ phase' = "initial"
    /\ UNCHANGED << now, envToken, cache, sportradarToken, tokenExpiry, odd >>
    /\ UNCHANGED << initial, includeUpcoming, events, i, sportradarTokenValue,
                    enrichedMatches, batches, params, response, reply >>
    /\ UNCHANGED trackerVars
    /\ UNCHANGED gateVars

\* StageSettled awaiting the detail promises only
StageSettledDetailsOnly ==
    \A k \in 1..Len(calls) : calls[k].typ = "detail" => calls[k].st # "pending"

\* Promise.all resolves once every promise of the stage has resolved
StageSettled == \A k \in 1..Len(calls) : calls[k].st # "pending"

\* Promise.all rejects as soon as one promise of the stage rejects
StageThrown == \E k \in 1..Len(calls) : calls[k].st = "thrown"

\* the await of the stage rejects and getPayload with it
Reject ==
    /\ phase \in {"initial", "batch"}
    /\ StageThrown
    /\ phase' = "rejected"
    /\ UNCHANGED << now, envToken, cache, sportradarToken, tokenExpiry, calls, odd >>
    /\ UNCHANGED << initial, includeUpcoming, events, i, sportradarTokenValue,
                    enrichedMatches, batches, params, response, reply >>
    /\ UNCHANGED trackerVars
    /\ UNCHANGED gateVars

\* matchesData?.data?.events || []
AllEvents(matchesData) ==
    IF IsSome(matchesData) /\ IsSome(Get(matchesData).data)
    THEN Get(Get(matchesData).data).events ELSE << >>

\* matchesData?.data?.sc || {}: the side score map, keyed by event id
scoreMap(matchesData) ==
    IF /\ IsSome(matchesData) /\ IsSome(Get(matchesData).data)
       /\ IsSome(Prop(Get(Get(matchesData).data), "sc"))
    THEN Get(Get(Get(matchesData).data).sc) ELSE EmptyMap

\* WithScore taking the entry of the side map over an inline score block
WithScoreOverwriting(ev, map) ==
    IF TruthyNum(ev.i) /\ Get(ev.i) \in DOMAIN map
    THEN [sc |-> Some(map[Get(ev.i)])] @@ ev
    ELSE ev

\* the body of allEvents.forEach: if (key && !ev.sc && scoreMap[key])
\* ev.sc = scoreMap[key], the key being String(ev.i) for a truthy id
WithScore(ev, map) ==
    IF TruthyNum(ev.i) /\ ~IsSome(Prop(ev, "sc")) /\ Get(ev.i) \in DOMAIN map
    THEN [sc |-> Some(map[Get(ev.i)])] @@ ev
    ELSE ev

\* allEvents after the forEach
ScoredEvents(matchesData) ==
    [k \in 1..Len(AllEvents(matchesData)) |->
        WithScore(AllEvents(matchesData)[k], scoreMap(matchesData))]

\* PassesInitial with status >= 0 in place of status > 0
PassesInitialNonNegative(ev, incl) ==
    (incl /\ Nullish(ev.s, 0) = 0) \/ Nullish(ev.s, 0) >= 0

\* the initial status filter
PassesInitial(ev, incl) ==
    (incl /\ Nullish(ev.s, 0) = 0) \/ Nullish(ev.s, 0) > 0

\* BatchLast with a slice one event too long
BatchLastOneMore(start, n) == Min(start + BatchSize + 1, n)

\* events.slice(start, start + 5): the last index of the batch after `start`
BatchLast(start, n) == Min(start + BatchSize, n)

\* NextStart with a step one short of the batch size
NextStartOneShort(start) == start + BatchSize - 1

\* i += 5
NextStart(start) == start + BatchSize

\* the promise of one call type for the event at index ev
EventCall(typ, ev, evs) ==
    IF IsSome(getEventId(evs[ev]))
    THEN fetchJson(typ, getEventId(evs[ev]), ev, 0)
    ELSE emptyPromise(typ, ev)

\* betradarId && sportradarTokenValue
SportradarCall(ev, evs, token) ==
    IF TruthyNum(evs[ev].bri) /\ IsSome(token) /\ Len(Get(token)) > 0
    THEN fetchSportradarStats(Get(evs[ev].bri), token, ev)
    ELSE emptyPromise("sportradar", ev)

\* the nine promise arrays of the batch first..last, in the order built
BatchCalls(first, last, evs, token) ==
    LET n == last - first + 1
    IN  [j \in 1..(9 * n) |->
            IF (j - 1) \div n < 8
            THEN EventCall(EventTypes[((j - 1) \div n) + 1], first + ((j - 1) % n), evs)
            ELSE SportradarCall(first + ((j - 1) % n), evs, token)]

\* requests of earlier stages that are still in flight
Outstanding == SelectSeq(calls, LAMBDA c : c.st = "pending")

\* BatchResult reading the first result of the type, whichever event it
\* was called for
BatchResultFirstOfType(typ, ev) ==
    LET ks == {k \in 1..Len(calls) : calls[k].typ = typ}
    IN  IF ks = {} THEN None
        ELSE Result(calls[CHOOSE k \in ks : \A j \in ks : k <= j])

\* batchX[idx]: the result of the call of type typ for the event at ev
BatchResult(typ, ev) ==
    LET ks == {k \in 1..Len(calls) : calls[k].typ = typ /\ calls[k].ev = ev}
    IN  IF ks = {} THEN None ELSE Result(calls[CHOOSE k \in ks : TRUE])

\* x?.data of a { isSuccess, data, message } result
DataOf(res) == IF IsSome(res) THEN Get(res).data ELSE None

\* SportradarDoc without the direct-data envelope
SportradarDocNoData(p) ==
    IF IsSome(p.doc) /\ Len(Get(p.doc)) > 0 THEN Get(p.doc)[1] ELSE p

\* doc?.[0] || data || sportradarData
SportradarDoc(p) ==
    IF IsSome(p.doc) /\ Len(Get(p.doc)) > 0 THEN Get(p.doc)[1]
    ELSE IF IsSome(p.data) THEN Get(p.data)
    ELSE p

\* details.data.m || details.data.markets: an array, empty or not, is truthy
DetailMarketsOf(details) ==
    IF IsSome(Get(details).m) THEN Get(details).m ELSE Get(details).markets

\* MergedMarkets keeping the markets of the event list ahead of the detail's
MergedMarketsListFirst(event, details) ==
    IF IsSome(event.m) THEN Get(event.m)
    ELSE IF IsSome(details) /\ IsSome(DetailMarketsOf(details))
         THEN Get(DetailMarketsOf(details)) ELSE << >>

\* MergedMarkets taking the markets from the detail whenever the detail
\* call gave data, also when that data has none
MergedMarketsDetailOrNone(event, details) ==
    IF IsSome(details) THEN Nullish(DetailMarketsOf(details), << >>)
    ELSE Nullish(event.m, << >>)

\* enrichedEvent.m: event.m || [], and with detail data
\* detailMarkets || event.m || []
MergedMarkets(event, details) ==
    IF IsSome(details) /\ IsSome(DetailMarketsOf(details))
    THEN Get(DetailMarketsOf(details))
    ELSE Nullish(event.m, << >>)

\* Assigned keeping the value of the listed event whatever the detail has
AssignedListedOnly(event, details, f) == Prop(event, f)

\* field f of { ...event } after if (details?.data) Object.assign(enrichedEvent,
\* details.data): the detail's value where the detail carries one
Assigned(event, details, f) ==
    IF IsSome(details) /\ IsSome(Prop(Get(details), f))
    THEN Prop(Get(details), f) ELSE Prop(event, f)

\* Attach assigning x?.data whether or not there is any
AttachAlways(before, data) == data

\* if (x?.data) enrichedEvent.f = x.data
Attach(before, data) == IF IsSome(data) THEN data ELSE before

\* StandingsAfterStats synthesizing over standings that are there already
StandingsAfterStatsOverwriting(before, stats) ==
    IF IsSome(stats) /\ IsSome(Prop(Get(stats), "tournamentStandingsModel"))
    THEN Some([overAll |-> Get(Get(stats).tournamentStandingsModel)])
    ELSE before

\* enrichedEvent.standings after if (stats?.data) { ... }: synthesized from
\* the tournament standings model when there are none yet
StandingsAfterStats(before, stats) ==
    IF /\ IsSome(stats)
       /\ ~IsSome(before)
       /\ IsSome(Prop(Get(stats), "tournamentStandingsModel"))
    THEN Some([overAll |-> Get(Get(stats).tournamentStandingsModel)])
    ELSE before

\* enrichedEvent.sportradar after if (sportradarData) { ... }
AttachSportradar(before, sr) ==
    IF IsSome(sr) THEN Some(SportradarDoc(Get(sr))) ELSE before

\* the body of batch.forEach: the event at ev with the results merged in
MergeEvent(ev) ==
    LET event   == events[ev]
        details == DataOf(BatchResult("detail", ev))
        stats   == DataOf(BatchResult("statistics", ev))
        From(f, typ) == Attach(Assigned(event, details, f), DataOf(BatchResult(typ, ev)))
    IN  [ i |-> event.i, s |-> Assigned(event, details, "s"), bri |-> event.bri,
          ci |-> event.ci, d |-> event.d, hn |-> event.hn,
          m |-> MergedMarkets(event, details),
          statistics     |-> From("statistics", "statistics"),
          headToHead     |-> From("headToHead", "headToHead"),
          lastMatches    |-> From("lastMatches", "lastMatches"),
          iddaaAnalysis  |-> From("iddaaAnalysis", "analysis"),
          missingPlayers |-> From("missingPlayers", "missingPlayers"),
          refereeStats   |-> From("refereeStats", "refereeStats"),
          standings      |-> Attach(StandingsAfterStats(
                                        Assigned(event, details, "standings"), stats),
                                    DataOf(BatchResult("standings", ev))),
          sportradar     |-> AttachSportradar(Assigned(event, details, "sportradar"),
                                              BatchResult("sportradar", ev)) ]

\* MergeBatchEvents leaving out the events whose detail call gave nothing
MergeBatchEventsDetailedOnly(first, last) ==
    SelectSeq([k \in 1..(last - first + 1) |-> MergeEvent(first + k - 1)],
              LAMBDA e : \E k \in first..last :
                  e.i = events[k].i /\ IsSome(DataOf(BatchResult("detail", k))))

\* the enriched events of the batch first..last, in batch order
MergeBatchEvents(first, last) == [k \in 1..(last - first + 1) |-> MergeEvent(first + k - 1)]

\* StatusLabels: the labels of the status codes 1 to 7 ("Canli" stands
\* for the label of code 1, written with a dotless i)
StatusLabels ==
    (1 :> "Canli") @@ (2 :> "1.Y") @@ (3 :> "2.Y") @@ (4 :> "D.A")
    @@ (5 :> "Bitti") @@ (6 :> "Bitti") @@ (7 :> "UZ 1.Y")

\* ---------------------------------------------------- filter and sort

\* searchParams.get("sort") || "markets": "unknown" is any other value
SortModes == {"markets", "time", "league", "home", "unknown"}
StatusFilters == {"all", "live", "ht", "upcoming"}
CompetitionFilters == {"all", "7", "8"}

\* String(m.ci)
StringOfCi(ci) ==
    IF ~IsSome(ci) THEN "undefined"
    ELSE CASE Get(ci) = 7 -> "7" [] Get(ci) = 8 -> "8" [] OTHER -> "other"

PassesCompetition(m, fc) == fc = "all" \/ StringOfCi(m.ci) = fc

\* PassesStatus with "ht" passing the half-time code and every later one
PassesStatusHtOnwards(m, fs) ==
    CASE fs = "all"      -> TRUE
      [] fs = "live"     -> Nullish(m.s, 0) > 0 /\ Nullish(m.s, 0) # HalfTimeStatus
      [] fs = "ht"       -> Nullish(m.s, 0) >= HalfTimeStatus
      [] fs = "upcoming" -> Nullish(m.s, 0) = 0
      [] OTHER           -> TRUE

PassesStatus(m, fs) ==
    CASE fs = "all"      -> TRUE
      [] fs = "live"     -> Nullish(m.s, 0) > 0 /\ Nullish(m.s, 0) # HalfTimeStatus
      [] fs = "ht"       -> Nullish(m.s, 0) = HalfTimeStatus
      [] fs = "upcoming" -> Nullish(m.s, 0) = 0
      [] OTHER           -> TRUE

\* "".localeCompare order of the team names in use
NameRank(hn) ==
    CASE ~IsSome(hn) -> 0
      [] Get(hn) = "A" -> 1 [] Get(hn) = "B" -> 2 [] Get(hn) = "C" -> 3
      [] Get(hn) = "D" -> 4 [] OTHER -> 5

\* Compare with the default mode ascending by the number of markets
CompareMarketsAscending(a, b, mode) ==
    CASE mode = "time"   -> Nullish(a.d, 0) - Nullish(b.d, 0)
      [] mode = "league" -> Nullish(a.ci, 0) - Nullish(b.ci, 0)
      [] mode = "home"   -> NameRank(a.hn) - NameRank(b.hn)
      [] OTHER           -> Len(a.m) - Len(b.m)

\* the comparator of filteredMatches.sort
Compare(a, b, mode) ==
    CASE mode = "time"   -> Nullish(a.d, 0) - Nullish(b.d, 0)
      [] mode = "league" -> Nullish(a.ci, 0) - Nullish(b.ci, 0)
      [] mode = "home"   -> NameRank(a.hn) - NameRank(b.hn)
      [] OTHER           -> Len(b.m) - Len(a.m)

RECURSIVE InsertSorted(_, _, _)
InsertSorted(x, sorted, mode) ==
    IF sorted = << >> THEN << x >>
    ELSE IF Compare(x, Head(sorted), mode) < 0 THEN << x >> \o sorted
    ELSE << Head(sorted) >> \o InsertSorted(x, Tail(sorted), mode)

\* Array.prototype.sort is stable: equal elements keep their order
RECURSIVE SortBy(_, _)
SortBy(seq, mode) ==
    IF seq = << >> THEN << >>
    ELSE InsertSorted(seq[Len(seq)], SortBy(SubSeq(seq, 1, Len(seq) - 1), mode), mode)

\* the caller filters, then the sort
FilterAndSort(enr, sm, fc, fs) ==
    SortBy(SelectSeq(SelectSeq(enr, LAMBDA m : PassesCompetition(m, fc)),
                     LAMBDA m : PassesStatus(m, fs)), sm)

\* ------------------------------------------------- response assembly

\* truthiness of an optional string: undefined and "" are falsy
TruthyStr(o) == IsSome(o) /\ o[1] # ""

\* ToLowerCase leaving the country code as it is written
ToLowerCaseAsIs(cid) == cid

\* cid.toLowerCase() of the country codes in use
ToLowerCase(cid) ==
    CASE cid = "TR" -> "tr" [] cid = "EN" -> "en" [] cid = "Tr" -> "tr" [] OTHER -> cid

\* competitionsData?.data || []
Competitions(competitionsData) ==
    IF IsSome(DataOf(competitionsData)) THEN Get(DataOf(competitionsData)) ELSE << >>

\* the map competitions.forEach leaves for field f: the value of the last
\* competition with a truthy id and a truthy f, under its id
CompetitionField(comps, f) ==
    LET has(k) == /\ comps[k].i # 0
                  /\ IF f = "p" THEN TruthyNum(comps[k][f]) ELSE TruthyStr(comps[k][f])
        ks == {k \in 1..Len(comps) : has(k)}
        last(id) == CHOOSE k \in ks : comps[k].i = id /\ \A j \in ks : comps[j].i = id => j <= k
    IN  [id \in {comps[k].i : k \in ks} |-> Get(comps[last(id)][f])]

competitionsMap(competitionsData) ==
    CompetitionField(Competitions(competitionsData), "p")

competitionNames(competitionsData) ==
    CompetitionField(Competitions(competitionsData), "n")

\* https://www.iddaa.com/images/country-flags/<cid in lower case>.png
competitionIcons(competitionsData) ==
    LET byId == CompetitionField(Competitions(competitionsData), "cid")
    IN  [id \in DOMAIN byId |-> << "country-flags", ToLowerCase(byId[id]) >>]

\* Object.values(marketConfigData?.data?.m || {})
marketConfigs(marketConfigData) ==
    IF IsSome(DataOf(marketConfigData)) /\ IsSome(Get(DataOf(marketConfigData)).m)
    THEN Get(Get(DataOf(marketConfigData)).m) ELSE << >>

\* ConfigKeys with the composite key alone for a config that has a type
ConfigKeysCompositeOnly(config) ==
    IF config.mst = 0 THEN {}
    ELSE IF config.mt # 0 THEN {<< config.mt, config.mst >>}
    ELSE {<< config.mst >>}

\* the keys storeConfig stores under: String(mst) and, for a truthy mt,
\* `${mt}_${mst}`; none for a falsy mst
ConfigKeys(config) ==
    IF config.mst = 0 THEN {}
    ELSE IF config.mt # 0 THEN {<< config.mst >>, << config.mt, config.mst >>}
    ELSE {<< config.mst >>}

\* storeConfig storing under its keys whether or not they are taken
storeConfigOverwriting(map, config) ==
    [k \in DOMAIN map \cup ConfigKeys(config) |->
        IF k \in ConfigKeys(config) THEN config ELSE map[k]]

\* storeConfig: a key already in the map keeps its config
storeConfig(map, config) ==
    [k \in DOMAIN map \cup ConfigKeys(config) |->
        IF k \in DOMAIN map THEN map[k] ELSE config]

\* configs.forEach(storeConfig)
RECURSIVE StoreEach(_, _)
StoreEach(map, configs) ==
    IF configs = << >> THEN map
    ELSE StoreEach(storeConfig(map, Head(configs)), Tail(configs))

\* marketConfigMap with the single pass over every config
marketConfigMapSinglePass(marketConfigData) ==
    StoreEach(EmptyMap, marketConfigs(marketConfigData))

\* marketConfigMap: the configs of type 4 are stored first, then all
marketConfigMap(marketConfigData) ==
    StoreEach(StoreEach(EmptyMap, SelectSeq(marketConfigs(marketConfigData),
                                            LAMBDA c : c.mt = MainMarketType)),
              marketConfigs(marketConfigData))

\* x?.data || {}
DataOrEmpty(res) == IF IsSome(DataOf(res)) THEN Get(DataOf(res)) ELSE EmptyMap

\* the fields the pipeline assembles
Assembled(data, init) ==
    [ data             |-> data,
      competitions     |-> competitionsMap(init["competitions"]),
      competitionNames |-> competitionNames(init["competitions"]),
      competitionIcons |-> competitionIcons(init["competitions"]),
      playPercentages  |-> DataOrEmpty(init["playPercentages"]),
      matchPopularity  |-> DataOrEmpty(init["matchPopularity"]),
      marketConfig     |-> marketConfigMap(init["marketConfig"]) ]

\* Payload without the spread of the raw event-list response
PayloadAssembledOnly(data, init) == Assembled(data, init)

\* { ...(matchesData || {}), data: filteredMatches, competitions: ..., ... }
Payload(data, init) ==
    Assembled(data, init) @@
        (IF IsSome(init["events"]) THEN Get(init["events"]) ELSE EmptyMap)

\* the query parameters explored for a run over n events: a status filter
\* goes with the default sort, and a long list with no filter
RequestParams(n) ==
    { pr \in [sort : SortModes, competition : CompetitionFilters, status : StatusFilters] :
        /\ n > MaxSmall => (pr.competition = "all" /\ pr.status = "all")
        /\ pr.sort = "markets" \/ pr.status = "all" }

\* the end of getPayload: it resolves with the consolidated payload
Finish(enr, init) ==
    \E pr \in RequestParams(Len(enr)) :
      LET sm == pr.sort  fc == pr.competition  fs == pr.status IN
        /\ params' = [sort |-> sm, competition |-> fc, status |-> fs]
        /\ response' = Some(Payload(FilterAndSort(enr, sm, fc, fs), init))
        /\ phase' = "done"

\* ---------------------------------------------------- the continuations

\* after the first Promise.all: the event list is filtered by status, the
\* token is obtained and the first batch is issued
ContinueInitial ==
    /\ phase = "initial"
    /\ StageSettled
    /\ ~StageThrown
    /\ \E incl \in BOOLEAN :
        LET matchesData == InitialResult("events")
            evs == SelectSeq(ScoredEvents(matchesData), LAMBDA ev : PassesInitial(ev, incl))
            tk  == fetchSportradarToken(envToken, sportradarToken, tokenExpiry, now)
        IN  /\ includeUpcoming' = incl
            /\ initial' = [t \in RefTypes \cup {"events"} |-> InitialResult(t)]
            /\ events' = evs
            /\ sportradarToken' = tk.tok
            /\ tokenExpiry' = tk.exp
            /\ sportradarTokenValue' = tk.ret
            /\ i' = 0
            /\ IF Len(evs) > 0
               THEN /\ calls' = Outstanding \o BatchCalls(1, BatchLast(0, Len(evs)), evs, tk.ret)
                    /\ batches' = << << 1, BatchLast(0, Len(evs)) >> >>
                    /\ phase' = "batch"
                    /\ UNCHANGED << enrichedMatches, params, response >>
               ELSE /\ Finish(<< >>, [t \in RefTypes \cup {"events"} |-> InitialResult(t)])
                    /\ UNCHANGED << calls, enrichedMatches, batches >>
    /\ UNCHANGED << now, envToken, cache, odd, reply >>
    /\ UNCHANGED trackerVars
    /\ UNCHANGED gateVars

\* after the Promise.all of a batch: its events are merged and appended,
\* then the next batch is issued or the payload is returned
MergeBatch ==
    /\ phase = "batch"
    /\ StageSettled
    /\ ~StageThrown
    /\ LET last == BatchLast(i, Len(events))
           enr  == enrichedMatches \o MergeBatchEvents(i + 1, last)
       IN  /\ enrichedMatches' = enr
           /\ IF NextStart(i) < Len(events)
              THEN /\ i' = NextStart(i)
                   /\ calls' = Outstanding \o
                         BatchCalls(NextStart(i) + 1, BatchLast(NextStart(i), Len(events)),
                                    events, sportradarTokenValue)
                   /\ batches' = Append(batches,
                         << NextStart(i) + 1, BatchLast(NextStart(i), Len(events)) >>)
                   /\ UNCHANGED << phase, params, response >>
              ELSE /\ Finish(enr, initial)
                   /\ UNCHANGED << i, calls, batches >>
    /\ UNCHANGED << now, envToken, cache, sportradarToken, tokenExpiry, odd >>
    /\ UNCHANGED << initial, includeUpcoming, events, sportradarTokenValue, reply >>
    /\ UNCHANGED trackerVars
    /\ UNCHANGED gateVars

\* ------------------------------------------------ the route handlers

\* NextResponseJson answering 200 whatever status is asked for
NextResponseJsonAlwaysOk(body, status) == [status |-> Ok, body |-> body]

\* NextResponse.json(body, { status })
NextResponseJson(body, status) == [status |-> status, body |-> body]

\* map[key], undefined for a key the map lacks
Lookup(map, key) == IF key \in DOMAIN map THEN Some(map[key]) ELSE None

\* the key mapMarket finds the config under: (configKey &&
\* marketConfig[configKey]) || (altKey && marketConfig[altKey]), with
\* configKey = String(st) for a truthy st and altKey = `${t}_${st}` when
\* both are defined
ConfigKeyOf(market, marketConfig) ==
    LET configKey == IF TruthyNum(market.st) THEN Some(<< Get(market.st) >>) ELSE None
        altKey    == IF IsSome(market.t) /\ IsSome(market.st)
                     THEN Some(<< Get(market.t), Get(market.st) >>) ELSE None
    IN  IF IsSome(configKey) /\ Get(configKey) \in DOMAIN marketConfig THEN configKey
        ELSE IF IsSome(altKey) /\ Get(altKey) \in DOMAIN marketConfig THEN altKey
        ELSE None

\* mapMarket: the v2 shape of a market; config is the entry its display
\* name is read from
mapMarket(market, marketConfig) ==
    [ type    |-> market.t,
      subType |-> market.st,
      config  |-> IF IsSome(ConfigKeyOf(market, marketConfig))
                  THEN Some(marketConfig[Get(ConfigKeyOf(market, marketConfig))])
                  ELSE None ]

\* mapMatch: the v2 shape of an enriched event.  The markets, opaque here,
\* are mapped one to one; the percentage maps are opaque too and the
\* per-event entries read from them are left out.
mapMatch(event, payload) ==
    [ id          |-> event.i,
      betradarId  |-> event.bri,
      status      |-> event.s,
      kickoff     |-> event.d,
      competition |-> IF TruthyNum(event.ci)
                      THEN Some([ id       |-> Get(event.ci),
                                  name     |-> Lookup(payload.competitionNames, Get(event.ci)),
                                  parentId |-> Lookup(payload.competitions, Get(event.ci)),
                                  icon     |-> Lookup(payload.competitionIcons, Get(event.ci)) ])
                      ELSE None,
      homeTeam       |-> [name |-> event.hn],
      markets        |-> event.m,
      statistics     |-> event.statistics,
      headToHead     |-> event.headToHead,
      lastMatches    |-> event.lastMatches,
      iddaaAnalysis  |-> event.iddaaAnalysis,
      missingPlayers |-> event.missingPlayers,
      refereeStats   |-> event.refereeStats,
      standings      |-> event.standings,
      sportradar     |-> event.sportradar ]

\* buildCompetitionsMeta: one entry for each competition with a name
buildCompetitionsMeta(payload) ==
    [id \in DOMAIN payload.competitionNames |->
        [ name     |-> Lookup(payload.competitionNames, id),
          parentId |-> Lookup(payload.competitions, id),
          icon     |-> Lookup(payload.competitionIcons, id) ]]

\* the body the v2 handler answers with
MatchesV2Body(payload) ==
    [ matches |-> [k \in 1..Len(payload.data) |-> mapMatch(payload.data[k], payload)],
      meta    |-> [ competitions    |-> buildCompetitionsMeta(payload),
                    playPercentages |-> payload.playPercentages,
                    matchPopularity |-> payload.matchPopularity,
                    marketConfig    |-> payload.marketConfig ] ]

ErrorBody == [error |-> "Internal server error"]

\* GET of the v2 route from the await of getPayload on: the mapped payload,
\* or 500 from the catch
GETMatchesV2 ==
    /\ reply = None
    /\ \/ /\ phase = "done"
          /\ reply' = Some(NextResponseJson(MatchesV2Body(Get(response)), Ok))
       \/ /\ phase = "rejected"
          /\ reply' = Some(NextResponseJson(ErrorBody, InternalServerError))
    /\ UNCHANGED << now, envToken, cache, sportradarToken, tokenExpiry, calls, odd >>
    /\ UNCHANGED << phase, initial, includeUpcoming, events, i, sportradarTokenValue,
                    enrichedMatches, batches, params, response >>
    /\ UNCHANGED trackerVars
    /\ UNCHANGED gateVars

\* GET of the plain route from the await of getPayload on: the payload, or
\* 500 from the catch
GET ==
    /\ reply = None
    /\ \/ /\ phase = "done"
          /\ reply' = Some(NextResponseJson(Get(response), Ok))
       \/ /\ phase = "rejected"
          /\ reply' = Some(NextResponseJson(ErrorBody, InternalServerError))
    /\ UNCHANGED << now, envToken, cache, sportradarToken, tokenExpiry, calls, odd >>
    /\ UNCHANGED << phase, initial, includeUpcoming, events, i, sportradarTokenValue,
                    enrichedMatches, batches, params, response >>
    /\ UNCHANGED trackerVars
    /\ UNCHANGED gateVars

\* ------------------------------------------------------ the auth gate

(* A string of the gate is the sequence of its characters.               *)

\* no request has reached the gate
NoRequest ==
    /\ username = None
    /\ password = None
    /\ request = None
    /\ verdict = None

\* truthiness of an optional string: undefined and "" are falsy
TruthyText(o) == IsSome(o) /\ Len(Get(o)) > 0

\* the base64 alphabet, in the order of the values 0..63
Alphabet ==
    << "A", "B", "C", "D", "E", "F", "G", "H", "I", "J", "K", "L", "M", "N", "O", "P",
       "Q", "R", "S", "T", "U", "V", "W", "X", "Y", "Z", "a", "b", "c", "d", "e", "f",
       "g", "h", "i", "j", "k", "l", "m", "n", "o", "p", "q", "r", "s", "t", "u", "v",
       "w", "x", "y", "z", "0", "1", "2", "3", "4", "5", "6", "7", "8", "9", "+", "/" >>

\* the value of a base64 character, 64 for any other character
Unbase64(c) ==
    IF \E k \in 1..Len(Alphabet) : Alphabet[k] = c
    THEN (CHOOSE k \in 1..Len(Alphabet) : Alphabet[k] = c) - 1
    ELSE 64

\* the character codes of the characters credentials are written with
CharCodes ==
    ("u" :> 117) @@ ("p" :> 112) @@ ("q" :> 113) @@ ("x" :> 120) @@ (":" :> 58)

\* the character of a byte; "?" stands for every character not listed
FromCharCode(b) ==
    IF \E c \in DOMAIN CharCodes : CharCodes[c] = b
    THEN CHOOSE c \in DOMAIN CharCodes : CharCodes[c] = b
    ELSE "?"

\* the base64 encoding of a byte sequence, padded with "="
RECURSIVE Base64(_)
Base64(bytes) ==
    LET b(k) == IF k <= Len(bytes) THEN bytes[k] ELSE 0
        n    == b(1) * 65536 + b(2) * 256 + b(3)
        c(k) == Alphabet[((n \div (64 ^ (4 - k))) % 64) + 1]
    IN  IF Len(bytes) = 0 THEN << >>
        ELSE IF Len(bytes) = 1 THEN << c(1), c(2), "=", "=" >>
        ELSE IF Len(bytes) = 2 THEN << c(1), c(2), c(3), "=" >>
        ELSE << c(1), c(2), c(3), c(4) >> \o Base64(SubSeq(bytes, 4, Len(bytes)))

\* what a client sends for a credentials text: its base64 encoding
Encoded(text) == Base64([k \in 1..Len(text) |-> CharCodes[text[k]]])

\* the bytes a sequence of 6-bit values stands for
RECURSIVE BytesOf(_)
BytesOf(v) ==
    LET b1 == v[1] * 4 + (v[2] \div 16)
        b2 == (v[2] % 16) * 16 + (v[3] \div 4)
        b3 == (v[3] % 4) * 64 + v[4]
    IN  IF Len(v) < 2 THEN << >>
        ELSE IF Len(v) = 2 THEN << b1 >>
        ELSE IF Len(v) = 3 THEN << b1, b2 >>
        ELSE << b1, b2, b3 >> \o BytesOf(SubSeq(v, 5, Len(v)))

\* the text of base64 characters
Decoded(chars) ==
    LET bytes == BytesOf([k \in 1..Len(chars) |-> Unbase64(chars[k])])
    IN  [k \in 1..Len(bytes) |-> FromCharCode(bytes[k])]

\* Buffer.from(encoded, "base64").toString("utf8"): decoding stops at the
\* first "=" and skips every character outside the alphabet
BufferFromBase64(encoded) ==
    LET pads == {k \in 1..Len(encoded) : encoded[k] = "="}
        upTo == IF pads = {} THEN encoded
                ELSE SubSeq(encoded, 1, (CHOOSE k \in pads : \A j \in pads : k <= j) - 1)
    IN  Decoded(SelectSeq(upTo, LAMBDA c : Unbase64(c) < 64))

\* atob(base64): one or two "=" are dropped from the end of a text whose
\* length is a multiple of 4; it throws (None) for a character outside the
\* alphabet and for a length of 1 modulo 4
atob(base64) ==
    LET n    == Len(base64)
        pad  == IF n % 4 # 0 \/ n = 0 \/ base64[n] # "=" THEN 0
                ELSE IF base64[n - 1] = "=" THEN 2 ELSE 1
        data == SubSeq(base64, 1, n - pad)
    IN  IF Len(data) % 4 = 1 \/ \E k \in 1..Len(data) : Unbase64(data[k]) = 64
        THEN None
        ELSE Some(Decoded(data))

\* s.split(sep) for a separator of one character
RECURSIVE Split(_, _)
Split(s, sep) ==
    LET ks == {k \in 1..Len(s) : s[k] = sep}
        k1 == CHOOSE k \in ks : \A j \in ks : k <= j
    IN  IF ks = {} THEN << s >>
        ELSE << SubSeq(s, 1, k1 - 1) >> \o Split(SubSeq(s, k1 + 1, Len(s)), sep)

\* the k-th element of an array destructuring, undefined past the end
At(parts, k) == IF k <= Len(parts) THEN Some(parts[k]) ELSE None

\* c.toLowerCase() for the letters a scheme is written with
LowerChar(c) ==
    CASE c = "B" -> "b" [] c = "A" -> "a" [] c = "S" -> "s"
      [] c = "I" -> "i" [] c = "C" -> "c" [] OTHER -> c

Lower(s) == [k \in 1..Len(s) |-> LowerChar(s[k])]

StartsWith(s, prefix) == Len(prefix) <= Len(s) /\ SubSeq(s, 1, Len(prefix)) = prefix

EndsWith(s, ext) ==
    Len(ext) <= Len(s) /\ SubSeq(s, Len(s) - Len(ext) + 1, Len(s)) = ext

allowPrefixes ==
    { << "/", "_", "n", "e", "x", "t", "/", "s", "t", "a", "t", "i", "c" >>,
      << "/", "_", "n", "e", "x", "t", "/", "i", "m", "a", "g", "e" >>,
      << "/", "f", "a", "v", "i", "c", "o", "n", ".", "i", "c", "o" >>,
      << "/", "r", "o", "b", "o", "t", "s", ".", "t", "x", "t" >>,
      << "/", "s", "i", "t", "e", "m", "a", "p", ".", "x", "m", "l" >>,
      << "/", "a", "s", "s", "e", "t", "s", "/" >> }

allowExtensions ==
    { << ".", "p", "n", "g" >>,
      << ".", "j", "p", "g" >>,
      << ".", "j", "p", "e", "g" >>,
      << ".", "g", "i", "f" >>,
      << ".", "s", "v", "g" >>,
      << ".", "c", "s", "s" >>,
      << ".", "j", "s" >> }

\* the test both gates let a static asset through with
IsStatic(pathname) ==
    \/ \E prefix \in allowPrefixes : StartsWith(pathname, prefix)
    \/ \E ext \in allowExtensions : EndsWith(pathname, ext)

NextResponseNext == [next |-> TRUE]

\* new NextResponse("Unauthorized", { status: 401, headers: ... })
unauthorized ==
    [ next |-> FALSE, status |-> Unauthorized, body |-> "Unauthorized",
      headers |-> [WWWAuthenticate |-> "Basic realm=\"Protected\""] ]

\* [user, pass] = credentials.split(":"); user === username && pass === password
CredentialsMatch(credentials, user, pass) ==
    /\ At(Split(credentials, ":"), 1) = user
    /\ At(Split(credentials, ":"), 2) = pass

\* proxy of src/proxy.ts (the default export): without credentials
\* configured every request passes
proxyDefault(req, user, pass) ==
    IF ~TruthyText(user) \/ ~TruthyText(pass) THEN NextResponseNext
    ELSE IF IsStatic(req.pathname) THEN NextResponseNext
    ELSE IF /\ TruthyText(req.authorization)
            /\ LET scheme  == At(Split(Get(req.authorization), " "), 1)
                   encoded == At(Split(Get(req.authorization), " "), 2)
               IN  /\ Lower(Get(scheme)) = << "b", "a", "s", "i", "c" >>
                   /\ TruthyText(encoded)
                   /\ CredentialsMatch(BufferFromBase64(Get(encoded)), user, pass)
         THEN NextResponseNext
    ELSE unauthorized

\* proxy of the second gate: without credentials configured every request
\* is answered 401
proxy(req, user, pass) ==
    IF ~TruthyText(user) \/ ~TruthyText(pass) THEN unauthorized
    ELSE IF IsStatic(req.pathname) THEN NextResponseNext
    ELSE IF \/ ~TruthyText(req.authorization)
            \/ ~StartsWith(Lower(Get(req.authorization)), << "b", "a", "s", "i", "c", " " >>)
         THEN unauthorized
    ELSE LET decoded == atob(Nullish(At(Split(Get(req.authorization), " "), 2), << >>))
         IN  IF IsSome(decoded) /\ CredentialsMatch(Get(decoded), user, pass)
             THEN NextResponseNext
             ELSE unauthorized

\* ------------------------------------------------- PerformanceTracker

\* no tracker has been asked for
NoTracker ==
    /\ trackerInstance = None
    /\ created = 0
    /\ initPromise = "none"
    /\ db = FALSE
    /\ bets = << >>
    /\ store = EmptyMap
    /\ callers = [c \in 1..MaxCallers |-> [st |-> "idle", open |-> FALSE]]
    /\ lastCall = [method |-> "none", outcome |-> "none", changed |-> FALSE]

BetIds == 1..MaxBets

\* a BetRecord: id, matchId, stake, odds and the three fields updateResult
\* sets; the other fields are carried along unread
BetRecord(id, matchId, odds, result, actualGoals, profit) ==
    [ id |-> id, matchId |-> matchId, stake |-> 10, odds |-> odds,
      result |-> result, actualGoals |-> actualGoals, profit |-> profit ]

\* the bets handed to addBet, as they are stored under a new id
NewBets == { BetRecord(id, Some("m"), 3, None, None, None) : id \in BetIds }

\* the records of an imported file: open and settled bets, and one
\* without matchId
ImportPool ==
    { BetRecord(1, Some("m"), 2, None, None, None),
      BetRecord(2, Some("m"), 2, Some("WIN"), Some(3), Some(10)),
      BetRecord(2, None, 2, None, None, None) }

\* JSON.parse(jsonString): None for a text that is not an array
Imports == {None} \cup {Some(l) : l \in UNION {[1..n -> ImportPool] : n \in 0..MaxImport}}

\* store.getAll(): the records in key order
RECURSIVE getAll(_)
getAll(st) ==
    IF DOMAIN st = {} THEN << >>
    ELSE LET id == CHOOSE x \in DOMAIN st : \A y \in DOMAIN st : x <= y
         IN  << st[id] >> \o getAll([k \in DOMAIN st \ {id} |-> st[k]])

\* the outcome of the call is recorded
Called(method, outcome) ==
    lastCall' = [method |-> method, outcome |-> outcome,
             changed |-> (store' # store \/ bets' # bets)]

\* a call that rejects having done nothing
Rejects(method) ==
    /\ UNCHANGED << store, bets >>
    /\ Called(method, "rejected")

\* getTracker: the first call constructs the tracker, assigns it and
\* awaits its init; a call that finds the instance returns it
getTracker(c) ==
    /\ callers[c].st = "idle"
    /\ IF trackerInstance = None
       THEN /\ trackerInstance' = Some(created + 1)
            /\ created' = created + 1
            /\ initPromise' = "opening"
            /\ callers' = [callers EXCEPT ![c].st = "awaiting"]
       ELSE /\ callers' = [callers EXCEPT ![c] = [st |-> "resolved", open |-> db]]
            /\ UNCHANGED << trackerInstance, created, initPromise >>
    /\ UNCHANGED << db, bets, store, lastCall >>
    /\ UNCHANGED pipelineVars
    /\ UNCHANGED gateVars

\* init: window is undefined, or indexedDB.open fails: init rejects and
\* the getTracker call awaiting it with it
initRejected ==
    /\ initPromise = "opening"
    /\ initPromise' = "rejected"
    /\ callers' = [c \in 1..MaxCallers |->
                     IF callers[c].st = "awaiting"
                     THEN [st |-> "rejected", open |-> FALSE] ELSE callers[c]]
    /\ UNCHANGED << trackerInstance, created, db, bets, store, lastCall >>
    /\ UNCHANGED pipelineVars
    /\ UNCHANGED gateVars

\* init: request.onsuccess sets this.db and starts loadAll
initOpened ==
    /\ initPromise = "opening"
    /\ db' = TRUE
    /\ initPromise' = "loading"
    /\ UNCHANGED << trackerInstance, created, bets, store, callers, lastCall >>
    /\ UNCHANGED pipelineVars
    /\ UNCHANGED gateVars

\* loadAll: this.bets = request.result; init resolves and the getTracker
\* call awaiting it returns the tracker
loadAll ==
    /\ initPromise = "loading"
    /\ bets' = getAll(store)
    /\ initPromise' = "resolved"
    /\ callers' = [c \in 1..MaxCallers |->
                     IF callers[c].st = "awaiting"
                     THEN [st |-> "resolved", open |-> db] ELSE callers[c]]
    /\ UNCHANGED << trackerInstance, created, db, store, lastCall >>
    /\ UNCHANGED pipelineVars
    /\ UNCHANGED gateVars

\* loadAll: request.onerror rejects; init has no handler for it and never
\* settles
loadAllRejected ==
    /\ initPromise = "loading"
    /\ initPromise' = "hung"
    /\ UNCHANGED << trackerInstance, created, db, bets, store, callers, lastCall >>
    /\ UNCHANGED pipelineVars
    /\ UNCHANGED gateVars

\* the tracker has been initialised: init has resolved
Initialised == trackerInstance # None /\ initPromise = "resolved"

\* addBet: the record gets an id no stored record has (crypto.randomUUID);
\* store.add succeeds or fails
addBet ==
    /\ Initialised
    /\ \E ok \in BOOLEAN :
          IF db /\ ok
          THEN \E record \in NewBets :
                  /\ record.id \notin DOMAIN store
                  /\ store' = (record.id :> record) @@ store
                  /\ bets' = Append(bets, record)
                  /\ Called("addBet", "resolved")
          ELSE Rejects("addBet")
    /\ UNCHANGED << trackerInstance, created, initPromise, db, callers >>
    /\ UNCHANGED pipelineVars
    /\ UNCHANGED gateVars

\* the record updateResult writes back
Settled(bet, result, actualGoals) ==
    [bet EXCEPT !.result = Some(result),
                !.actualGoals = Some(actualGoals),
                !.profit = Some(IF result = "WIN" THEN bet.stake * (bet.odds - 1)
                                ELSE 0 - bet.stake)]

\* this.bets after updateResult: the record at findIndex is replaced
Replaced(list, bet) ==
    LET ks == {k \in 1..Len(list) : list[k].id = bet.id}
    IN  IF ks = {} THEN list
        ELSE [list EXCEPT ![CHOOSE k \in ks : \A j \in ks : k <= j] = bet]

\* updateResult: rejects for a bet the store lacks
updateResult ==
    /\ Initialised
    /\ \E betId \in BetIds, result \in {"WIN", "LOSS"}, ok \in BOOLEAN :
          IF db /\ ok /\ betId \in DOMAIN store
          THEN /\ store' = [store EXCEPT ![betId] = Settled(store[betId], result, 3)]
               /\ bets' = Replaced(bets, Settled(store[betId], result, 3))
               /\ Called("updateResult", "resolved")
          ELSE Rejects("updateResult")
    /\ UNCHANGED << trackerInstance, created, initPromise, db, callers >>
    /\ UNCHANGED pipelineVars
    /\ UNCHANGED gateVars

\* deleteBet: store.delete succeeds for an id the store lacks too
deleteBet ==
    /\ Initialised
    /\ \E betId \in BetIds, ok \in BOOLEAN :
          IF db /\ ok
          THEN /\ store' = [k \in DOMAIN store \ {betId} |-> store[k]]
               /\ bets' = SelectSeq(bets, LAMBDA b : b.id # betId)
               /\ Called("deleteBet", "resolved")
          ELSE Rejects("deleteBet")
    /\ UNCHANGED << trackerInstance, created, initPromise, db, callers >>
    /\ UNCHANGED pipelineVars
    /\ UNCHANGED gateVars

\* clearAll
clearAll ==
    /\ Initialised
    /\ \E ok \in BOOLEAN :
          IF db /\ ok
          THEN /\ store' = EmptyMap
               /\ bets' = << >>
               /\ Called("clearAll", "resolved")
          ELSE Rejects("clearAll")
    /\ UNCHANGED << trackerInstance, created, initPromise, db, callers >>
    /\ UNCHANGED pipelineVars
    /\ UNCHANGED gateVars

\* !bet.id || !bet.timestamp || !bet.matchId || !bet.betType
ValidBet(bet) == bet.id # 0 /\ IsSome(bet.matchId)

\* the loop of importData: one store.add per record, each in a
\* transaction of its own, up to the first that fails (a key that is
\* there already); ok tells whether all were added
RECURSIVE AddEach(_, _)
AddEach(st, imported) ==
    IF imported = << >> THEN [store |-> st, ok |-> TRUE]
    ELSE IF Head(imported).id \in DOMAIN st THEN [store |-> st, ok |-> FALSE]
    ELSE AddEach((Head(imported).id :> Head(imported)) @@ st, Tail(imported))

\* importData: the text is parsed and validated, the store is cleared,
\* the records are added one by one and the list is loaded again; any
\* failure is thrown on as 'Import failed'
importData ==
    /\ Initialised
    /\ \E json \in Imports, ok \in BOOLEAN :
          IF \/ ~IsSome(json)
             \/ \E k \in 1..Len(Get(json)) : ~ValidBet(Get(json)[k])
             \/ ~(db /\ ok)
          THEN Rejects("importData")
          ELSE LET added == AddEach(EmptyMap, Get(json))
               IN  /\ store' = added.store
                   /\ bets' = IF added.ok THEN getAll(added.store) ELSE << >>
                   /\ Called("importData", IF added.ok THEN "resolved" ELSE "rejected")
    /\ UNCHANGED << trackerInstance, created, initPromise, db, callers >>
    /\ UNCHANGED pipelineVars
    /\ UNCHANGED gateVars

\* close: the connection is closed and this.db reset
close ==
    /\ trackerInstance # None
    /\ db
    /\ db' = FALSE
    /\ UNCHANGED << trackerInstance, created, initPromise, bets, store, callers, lastCall >>
    /\ UNCHANGED pipelineVars
    /\ UNCHANGED gateVars

\* ------------------------------------- fetchJson called on its own

\* the url and ttlMs of the calls: one URL without a TTL, with a negative
\* one and with two different ones, and a second URL
CallArgs ==
    { << "competitions", 0 >>, << "competitions", 0 - PercentagesTtl >>,
      << "competitions", PercentagesTtl >>,
      << "competitions", CompetitionsTtl >>, << "playPercentages", PercentagesTtl >> }

\* some caller invokes fetchJson(url, ttlMs)
CallFetchJson ==
    /\ Len(calls) < MaxCalls
    /\ \E a \in CallArgs :
         calls' = Append(calls, fetchJson(a[1], None, 0, a[2]))
    /\ UNCHANGED << now, envToken, cache, sportradarToken, tokenExpiry, odd >>
    /\ UNCHANGED runVars
    /\ UNCHANGED trackerVars
    /\ UNCHANGED gateVars

Init ==
    /\ envToken \in EnvTokens
    /\ now \in (IF IsSome(envToken) THEN {StartTime} ELSE {StartTime, StartTime + TickSec})
    /\ cache = << >>
    /\ sportradarToken = None
    /\ tokenExpiry = 0
    /\ calls = << >>
    /\ odd = 0
    /\ phase = "idle"
    /\ initial = << >>
    /\ includeUpcoming = FALSE
    /\ events = << >>
    /\ i = 0
    /\ sportradarTokenValue = None
    /\ enrichedMatches = << >>
    /\ batches = << >>
    /\ params = << >>
    /\ response = None
    /\ reply = None
    /\ NoTracker
    /\ NoRequest

InitCache == Init /\ envToken = None /\ now = StartTime

\* --------------------------- the market-config map built on its own

\* configs of one sub type with type 4 (two of them), another type and no
\* type, of a second sub type, and a type-4 config without sub type
ConfigPool ==
    { MarketConfig(1, 1, 5), MarketConfig(2, MainMarketType, 5), MarketConfig(3, 0, 5),
      MarketConfig(4, MainMarketType, 0), MarketConfig(5, MainMarketType, 5),
      MarketConfig(6, 2, 6) }

\* Object.values of the configurations the upstream may list, in any
\* order: the values of a map keyed by config id, so no id comes twice
ConfigLists ==
    { l \in UNION {[1..n -> ConfigPool] : n \in 0..MaxConfigs} :
        \A j, k \in 1..Len(l) : l[j].i = l[k].i => j = k }

\* the initial fetches are in, the market configuration among them
InitConfig ==
    /\ envToken = None
    /\ now = StartTime
    /\ cache = << >>
    /\ sportradarToken = None
    /\ tokenExpiry = 0
    /\ calls = << >>
    /\ odd = 0
    /\ phase = "idle"
    /\ \E cfgs \in ConfigLists :
          initial = [t \in RefTypes \cup {"events"} |->
                        IF t = "marketConfig"
                        THEN Some([data |-> Some([m |-> Some(cfgs)]), message |-> now])
                        ELSE None]
    /\ includeUpcoming = FALSE
    /\ events = << >>
    /\ i = 0
    /\ sportradarTokenValue = None
    /\ enrichedMatches = << >>
    /\ batches = << >>
    /\ params = << >>
    /\ response = None
    /\ reply = None
    /\ NoTracker
    /\ NoRequest

\* the lookup maps are built from the initial results and returned
StoreConfigs ==
    /\ phase = "idle"
    /\ response' = Some(Payload(<< >>, initial))
    /\ phase' = "done"
    /\ UNCHANGED << now, envToken, cache, sportradarToken, tokenExpiry, calls, odd >>
    /\ UNCHANGED << initial, includeUpcoming, events, i, sportradarTokenValue,
                    enrichedMatches, batches, params, reply >>
    /\ UNCHANGED trackerVars
    /\ UNCHANGED gateVars

SpecConfig == InitConfig /\ [][StoreConfigs]_vars

\* the markets the v2 route maps: with and without type and sub type,
\* with type or sub type 0, with the types and sub types of the configs
MarketPool ==
    { [t |-> t, st |-> st] :
        t \in {None, Some(0), Some(1), Some(2), Some(MainMarketType)},
        st \in {None, Some(0), Some(5), Some(6)} }

\* the v2 route maps a market against the market-config map of the payload
MapMarket ==
    /\ phase = "done"
    /\ reply = None
    /\ \E market \in MarketPool :
          reply' = Some([market |-> market,
                         mapped |-> mapMarket(market, Get(response).marketConfig)])
    /\ UNCHANGED << now, envToken, cache, sportradarToken, tokenExpiry, calls, odd >>
    /\ UNCHANGED << phase, initial, includeUpcoming, events, i, sportradarTokenValue,
                    enrichedMatches, batches, params, response >>
    /\ UNCHANGED trackerVars
    /\ UNCHANGED gateVars

NextMarkets ==
    \/ StoreConfigs
    \/ MapMarket

SpecMarkets == InitConfig /\ [][NextMarkets]_vars

\* ------------------------- the competition maps built on their own

\* competitions with id 7, 8 or 0 (no usable id), with a parent id, the
\* parent id 0 or none, with or without a name, and with a country code in
\* capitals, in mixed case, in lower case or with none
CompetitionPool ==
    { Competition(id, p, n, cid) :
        id \in {7, 8, 0}, p \in {None, Some(1), Some(0)}, n \in {None, Some("L")},
        cid \in {None, Some("TR"), Some("Tr"), Some("tr")} }

\* the competition lists the upstream may answer with: an id identifies
\* one competition of the list
CompetitionLists ==
    { l \in UNION {[1..n -> CompetitionPool] : n \in 0..MaxCompetitions} :
        \A j, k \in 1..Len(l) : l[j].i = l[k].i => j = k }

\* the initial fetches are in, the competition list among them
InitCompetitions ==
    /\ envToken = None
    /\ now = StartTime
    /\ cache = << >>
    /\ sportradarToken = None
    /\ tokenExpiry = 0
    /\ calls = << >>
    /\ odd = 0
    /\ phase = "idle"
    /\ \E comps \in CompetitionLists :
          initial = [t \in RefTypes \cup {"events"} |->
                        IF t = "competitions"
                        THEN Some([data |-> Some(comps), message |-> now])
                        ELSE None]
    /\ includeUpcoming = FALSE
    /\ events = << >>
    /\ i = 0
    /\ sportradarTokenValue = None
    /\ enrichedMatches = << >>
    /\ batches = << >>
    /\ params = << >>
    /\ response = None
    /\ reply = None
    /\ NoTracker
    /\ NoRequest

SpecCompetitions == InitCompetitions /\ [][StoreConfigs]_vars

\* ------------------------ the score blocks attached on their own

\* a live event that carries a score block of its own in the list
EvScored ==
    [sc |-> Some(<< "inline score", 103 >>)]
    @@ Ev(Some(103), Some(1), Some(9005), Some(7), Some(70), Some("F"), Some(<<51>>))

ScoredPool == {EvLive, EvUpcoming, EvHalfTime, EvSecond, EvScored}

ScoredLists == UNION {[1..n -> ScoredPool] : n \in 0..MaxScored}

\* data.sc of the event-list response: absent, empty, or with an entry
\* for some of the ids 101, 102, 103 and for the key "0"
ScoreMaps ==
    {None} \cup
    {Some([k \in ks |-> << "side score", k >>]) :
        ks \in {{}, {101, 103}, {0, 102}, {0, 101, 103}}}

\* the first Promise.all has settled: the event list came with a side
\* score map, the four reference fetches returned null
InitScores ==
    /\ envToken = None
    /\ now = StartTime
    /\ cache = << >>
    /\ sportradarToken = None
    /\ tokenExpiry = 0
    /\ \E l \in ScoredLists, sc \in ScoreMaps :
          calls = << Slot("marketConfig", None, 0, MarketConfigTtl, TRUE, "null", None),
                     Slot("events", None, 0, 0, TRUE, "value",
                          Some([data |-> Some([events |-> l, sc |-> sc]),
                                isSuccess |-> TRUE, message |-> "ok"])),
                     Slot("competitions", None, 0, CompetitionsTtl, TRUE, "null", None),
                     Slot("playPercentages", None, 0, PercentagesTtl, TRUE, "null", None),
                     Slot("matchPopularity", None, 0, PercentagesTtl, TRUE, "null", None) >>
    /\ odd = 0
    /\ phase = "initial"
    /\ initial = << >>
    /\ includeUpcoming = FALSE
    /\ events = << >>
    /\ i = 0
    /\ sportradarTokenValue = None
    /\ enrichedMatches = << >>
    /\ batches = << >>
    /\ params = << >>
    /\ response = None
    /\ reply = None
    /\ NoTracker
    /\ NoRequest

SpecScores == InitScores /\ [][ContinueInitial]_vars

\* ------------------------------------ the tracker used on its own

\* the object store as earlier sessions of the browser left it
StoredBets ==
    { EmptyMap,
      (1 :> BetRecord(1, Some("m"), 3, None, None, None)),
      (2 :> BetRecord(2, Some("m"), 3, Some("LOSS"), Some(3), Some(0 - 10))) }

InitTracker ==
    /\ envToken = None
    /\ now = StartTime
    /\ cache = << >>
    /\ sportradarToken = None
    /\ tokenExpiry = 0
    /\ calls = << >>
    /\ odd = 0
    /\ phase = "idle"
    /\ initial = << >>
    /\ includeUpcoming = FALSE
    /\ events = << >>
    /\ i = 0
    /\ sportradarTokenValue = None
    /\ enrichedMatches = << >>
    /\ batches = << >>
    /\ params = << >>
    /\ response = None
    /\ reply = None
    /\ trackerInstance = None
    /\ created = 0
    /\ initPromise = "none"
    /\ db = FALSE
    /\ bets = << >>
    /\ store \in StoredBets
    /\ callers = [c \in 1..MaxCallers |-> [st |-> "idle", open |-> FALSE]]
    /\ lastCall = [method |-> "none", outcome |-> "none", changed |-> FALSE]
    /\ NoRequest

NextTracker ==
    \/ \E c \in 1..MaxCallers : getTracker(c)
    \/ initRejected
    \/ initOpened
    \/ loadAll
    \/ loadAllRejected
    \/ addBet
    \/ updateResult
    \/ deleteBet
    \/ clearAll
    \/ importData
    \/ close

SpecTracker == InitTracker /\ [][NextTracker]_vars

\* --------------------------------------- the auth gate on its own

\* "u:p", "u:p:q", "u:q", "x:p", "u", "u:p:x" as a client may encode them
CredentialTexts ==
    { << "u", ":", "p" >>,
      << "u", ":", "p", ":", "q" >>,
      << "u", ":", "q" >>,
      << "x", ":", "p" >>,
      << "u" >>,
      << "u", ":", "p", ":", "x" >> }

Schemes ==
    { << "B", "a", "s", "i", "c" >>,
      << "b", "a", "s", "i", "c" >>,
      << "B", "A", "S", "I", "C" >>,
      << "B", "e", "a", "r", "e", "r" >> }

\* the encodings sent for a text: the padded one, the same without its
\* padding, and one followed by a character outside the alphabet
Encodings(text) ==
    { Encoded(text),
      SelectSeq(Encoded(text), LAMBDA c : c # "="),
      Encoded(text) \o << "*" >> }

\* the Authorization headers: none, an empty one, a scheme alone, a scheme
\* and credentials, and Basic credentials after two spaces or followed by
\* one more word
Authorizations ==
    {None, Some(<< >>), Some(<< "B", "a", "s", "i", "c" >>)}
    \cup { Some(scheme \o << " " >> \o enc) :
              scheme \in Schemes, enc \in UNION {Encodings(t) : t \in CredentialTexts} }
    \cup { Some(<< "B", "a", "s", "i", "c" >> \o << " ", " " >> \o Encoded(t)) : t \in CredentialTexts }
    \cup { Some(<< "B", "a", "s", "i", "c" >> \o << " " >> \o Encoded(t) \o << " ", "x" >>) :
              t \in CredentialTexts }

\* "/", "/api/matches", and two static assets
Pathnames ==
    { << "/" >>,
      << "/", "a", "p", "i", "/", "m", "a", "t", "c", "h", "e", "s" >>,
      << "/", "_", "n", "e", "x", "t", "/", "s", "t", "a", "t", "i", "c", "/", "a" >>,
      << "/", "l", "o", "g", "o", ".", "p", "n", "g" >> }

Requests == [authorization : Authorizations, pathname : Pathnames]

\* BASIC_AUTH_USER is unset, empty or "u"; BASIC_AUTH_PASS is unset, "p"
\* or "p:q"
InitGate ==
    /\ envToken = None
    /\ now = StartTime
    /\ cache = << >>
    /\ sportradarToken = None
    /\ tokenExpiry = 0
    /\ calls = << >>
    /\ odd = 0
    /\ phase = "idle"
    /\ initial = << >>
    /\ includeUpcoming = FALSE
    /\ events = << >>
    /\ i = 0
    /\ sportradarTokenValue = None
    /\ enrichedMatches = << >>
    /\ batches = << >>
    /\ params = << >>
    /\ response = None
    /\ reply = None
    /\ NoTracker
    /\ username \in {None, Some(<< >>), Some(<< "u" >>)}
    /\ password \in {None, Some(<< "p" >>), Some(<< "p", ":", "q" >>)}
    /\ request = None
    /\ verdict = None

\* a request reaches the gate; both proxy functions are asked
HandleRequest ==
    /\ \E req \in Requests :
          /\ request' = Some(req)
          /\ verdict' = Some([ proxyDefault |-> proxyDefault(req, username, password),
                               proxy        |-> proxy(req, username, password) ])
    /\ UNCHANGED << username, password >>
    /\ UNCHANGED pipelineVars
    /\ UNCHANGED trackerVars

SpecGate == InitGate /\ [][HandleRequest]_vars

\* ------------------------------- fetchSportradarToken called on its own

\* some caller awaits fetchSportradarToken: it stands at "token", with what
\* the call returned in sportradarTokenValue
CallFetchSportradarToken ==
    /\ LET tk == fetchSportradarToken(envToken, sportradarToken, tokenExpiry, now)
       IN  /\ sportradarToken' = tk.tok
           /\ tokenExpiry' = tk.exp
           /\ sportradarTokenValue' = tk.ret
    /\ phase' = "token"
    /\ UNCHANGED << now, envToken, cache, calls, odd >>
    /\ UNCHANGED << initial, includeUpcoming, events, i,
                    enrichedMatches, batches, params, response, reply >>
    /\ UNCHANGED trackerVars
    /\ UNCHANGED gateVars

\* process.env.SPORTRADAR_TOKEN, read anew by every call, is set, changed
\* or unset between two calls
SetEnv ==
    /\ \E env \in EnvTokens : env # envToken /\ envToken' = env
    /\ phase' = "idle"
    /\ UNCHANGED << now, cache, sportradarToken, tokenExpiry, calls, odd >>
    /\ UNCHANGED << initial, includeUpcoming, events, i, sportradarTokenValue,
                    enrichedMatches, batches, params, response, reply >>
    /\ UNCHANGED trackerVars
    /\ UNCHANGED gateVars

NextToken ==
    \/ CallFetchSportradarToken
    \/ SetEnv
    \/ Tick

SpecToken == Init /\ [][NextToken]_vars

NextCache ==
    \/ CallFetchJson
    \/ \E k \in SettleChoices : Settle(k)
    \/ Tick

SpecCache == InitCache /\ [][NextCache]_vars

\* the pipeline against the upstream of SettleInitial
NextInitial ==
    \/ Start
    \/ \E k \in SettleChoices : SettleInitial(k)
    \/ ContinueInitial
    \/ MergeBatch

SpecInitial == Init /\ [][NextInitial]_vars

Next ==
    \/ Start
    \/ \E k \in SettleChoices : Settle(k)
    \/ Reject
    \/ ContinueInitial
    \/ MergeBatch
    \/ GETMatchesV2
    \/ GET

Spec == Init /\ [][Next]_vars

\* ================================================================ claims

\* the event list the upstream answered with
UpstreamEvents == IF "events" \in DOMAIN initial THEN AllEvents(initial["events"]) ELSE << >>

ResponseData == IF IsSome(response) THEN Get(response).data ELSE << >>

IsStatusZero(ev) == Nullish(ev.s, 0) = 0

InData(ev) == \E j \in 1..Len(ResponseData) : ResponseData[j].i = ev.i

\* the fields of an event that no enrichment call replaces
Base(e) == << e.i, e.bri, e.ci, e.d, e.hn >>

\* C1 (as claimed): no failure of a single upstream call makes getPayload
\* reject; it always resolves with a response.
C1_FailureNeverRejects == phase # "rejected"

\* C2: the enriched list holds, in order, one enriched event for each event
\* that passed the initial status filter: while batches run it is the
\* prefix before the current batch, and at the end it covers every event,
\* whichever enrichment calls returned null.
C2_EnrichedMatchesEvents ==
    /\ Len(enrichedMatches) <= Len(events)
    /\ \A k \in 1..Len(enrichedMatches) : Base(enrichedMatches[k]) = Base(events[k])
    /\ phase = "batch" => Len(enrichedMatches) = i
    /\ phase = "done" => Len(enrichedMatches) = Len(events)

C2_Witness ==
    /\ phase = "done"
    /\ Len(events) >= 2
    /\ \E k \in 1..Len(events) :
          /\ IsSome(getEventId(events[k]))
          /\ ~IsSome(enrichedMatches[k].headToHead)

\* C3: a fetchJson call with a positive TTL that starts while the cache
\* holds an unexpired entry for its URL returns the stored value and sends
\* no request.
C3_LiveEntryServed ==
    [][ Len(calls') = Len(calls) + 1 =>
          LET c == calls'[Len(calls')] IN
            (c.ttl > 0 /\ Url(c.typ, c.id) \in DOMAIN cache
                       /\ cache[Url(c.typ, c.id)].expires > now)
              => (c.st = "value" /\ ~c.net /\ c.val = Some(cache[Url(c.typ, c.id)].value)) ]_vars

\* two calls for one URL, the second served from the entry the first stored
\* a clock step earlier
C3_Witness ==
    /\ now > StartTime
    /\ \E j, k \in 1..Len(calls) :
          /\ j < k
          /\ Url(calls[j].typ, calls[j].id) = Url(calls[k].typ, calls[k].id)
          /\ calls[j].net /\ calls[j].st = "value" /\ calls[j].ttl > 0
          /\ ~calls[k].net /\ calls[k].st = "value" /\ calls[k].val = calls[j].val
          /\ \A m \in 1..Len(calls) : calls[m].net => m = j

\* C4 (as claimed): a fetchJson call whose upstream fetch fails returns
\* null and leaves the cache as it was.
C4_FailedFetchReturnsNull ==
    [][ \A k \in 1..Len(calls) :
          (calls[k].st = "pending" /\ calls[k].typ # "sportradar"
             /\ calls'[k].st \notin {"pending", "value"})
            => (calls'[k].st = "null" /\ cache' = cache) ]_vars

\* C5 (as claimed): a status-0 event of the upstream list is in the
\* response's data exactly when includeUpcoming is set.
C5_Original ==
    phase = "done" =>
        \A k \in 1..Len(UpstreamEvents) :
            IsStatusZero(UpstreamEvents[k]) => (includeUpcoming <=> InData(UpstreamEvents[k]))

\* C5 (amended): a status-0 event of the upstream list is absent from the
\* response's data when includeUpcoming is not set; when it is set, the
\* event is in the data exactly when its enriched record passes the
\* caller's competition and status filters.
C5_UpcomingByFlagAndFilters ==
    phase = "done" =>
        \A k \in 1..Len(UpstreamEvents) :
            IsStatusZero(UpstreamEvents[k]) =>
                /\ ~includeUpcoming => ~InData(UpstreamEvents[k])
                /\ includeUpcoming =>
                     (InData(UpstreamEvents[k]) <=>
                        \E j \in 1..Len(enrichedMatches) :
                            /\ enrichedMatches[j].i = UpstreamEvents[k].i
                            /\ PassesCompetition(enrichedMatches[j], params.competition)
                            /\ PassesStatus(enrichedMatches[j], params.status))

\* with includeUpcoming set, one status-0 event is in the data and another
\* is filtered out by the caller's filters
C5_Witness ==
    /\ phase = "done"
    /\ includeUpcoming
    /\ \E j, k \in 1..Len(UpstreamEvents) :
          /\ IsStatusZero(UpstreamEvents[j]) /\ InData(UpstreamEvents[j])
          /\ IsStatusZero(UpstreamEvents[k]) /\ ~InData(UpstreamEvents[k])

\* C6: every request in flight for an event belongs to the current batch,
\* and every event before that batch has been merged and appended.
C6_BatchesSequential ==
    \A k \in 1..Len(calls) :
        (calls[k].st = "pending" /\ calls[k].ev > 0) =>
            /\ Len(enrichedMatches) = i
            /\ calls[k].ev > i
            /\ calls[k].ev <= i + BatchSize

\* the second batch is in flight, the first merged
C6_Witness ==
    /\ phase = "batch"
    /\ i = BatchSize
    /\ Len(enrichedMatches) = BatchSize
    /\ InFlight > 0

\* C7: the batches are consecutive runs of the event list, each of exactly
\* five events but the last, which has one to five; a finished run over n
\* events has issued ceil(n / 5) of them.
C7_BatchPartition ==
    /\ \A b \in 1..Len(batches) :
          /\ batches[b][1] = (b - 1) * BatchSize + 1
          /\ batches[b][2] >= batches[b][1]
          /\ batches[b][2] <= Len(events)
          /\ b < Len(batches) => batches[b][2] = b * BatchSize
          /\ batches[b][2] - batches[b][1] + 1 <= BatchSize
    /\ phase = "done" =>
          /\ Len(batches) = (Len(events) + BatchSize - 1) \div BatchSize
          /\ Len(batches) > 0 => batches[Len(batches)][2] = Len(events)

\* six events without a usable id: batches of five and one
C7_Witness ==
    /\ phase = "done"
    /\ Len(events) = BatchSize + 1
    /\ batches = << << 1, BatchSize >>, << BatchSize + 1, BatchSize + 1 >> >>
    /\ ~IsSome(getEventId(events[1]))

\* C8: at most 45 upstream requests, five events times nine call types,
\* are in flight.
C8_AtMost45InFlight == InFlight <= 9 * BatchSize

C8_Witness == phase = "batch" /\ InFlight = 9 * BatchSize

\* C9 (as claimed): a live-stats request is sent for an event only when the
\* event has a betradar id and the token obtained carries an expiry later
\* than now.
C9_LiveStatsOnlyWithValidToken ==
    \A k \in 1..Len(calls) :
        (calls[k].typ = "sportradar" /\ calls[k].net) =>
            /\ TruthyNum(events[calls[k].ev].bri)
            /\ IsSome(sportradarTokenValue)
            /\ IsSome(ExpMatch(Get(sportradarTokenValue)))
            /\ Get(ExpMatch(Get(sportradarTokenValue))) > now

\* C10 (as claimed): when no exp=<digits> can be read from the configured
\* token, getToken returns null and no live-stats request is sent.
C10_UnparsableTokenGivesNull ==
    (phase \in {"batch", "done"} /\ IsSome(envToken) /\ ~IsSome(ExpMatch(Get(envToken)))) =>
        /\ sportradarTokenValue = None
        /\ \A k \in 1..Len(calls) : ~(calls[k].typ = "sportradar" /\ calls[k].net)

\* C11: for an event whose id is missing or 0, each of the eight id-keyed
\* calls of its batch is resolved to null without a request, and its
\* enriched record carries the base fields and none of the id-keyed data.
C11_NoIdNoRequests ==
    /\ \A k \in 1..Len(calls) :
          (calls[k].ev > 0 /\ calls[k].typ # "sportradar"
                           /\ ~TruthyNum(events[calls[k].ev].i))
            => (~calls[k].net /\ calls[k].st = "null")
    /\ \A k \in 1..Len(enrichedMatches) :
          ~TruthyNum(events[k].i) =>
             /\ Base(enrichedMatches[k]) = Base(events[k])
             /\ enrichedMatches[k].s = events[k].s
             /\ enrichedMatches[k].m = Nullish(events[k].m, << >>)
             /\ \A f \in {"statistics", "headToHead", "lastMatches", "iddaaAnalysis",
                          "missingPlayers", "refereeStats", "standings"} :
                    enrichedMatches[k][f] = None
    /\ phase = "done" => Len(enrichedMatches) = Len(events)

\* a finished run over an event without id and one with id 0; the live
\* stats of the first, keyed by its betradar id, were fetched all the same
C11_Witness ==
    /\ phase = "done"
    /\ \E j, k \in 1..Len(enrichedMatches) :
          /\ events[j].i = None /\ IsSome(enrichedMatches[j].sportradar)
          /\ events[k].i = Some(0)

\* the initial fetches that returned null
NullInitial == {t \in DOMAIN initial : initial[t] = None}

\* C12: whatever subset of the five initial fetches returned null, no call
\* rejects and a finished run has: an empty marketConfig map for a null
\* market-config fetch, empty competition and percentage maps for theirs,
\* an empty data list for a null event list; and for the fetches that gave
\* data, the maps of that data and the filtered, sorted enriched events.
C12_NullInitialFetches ==
    /\ \A k \in 1..Len(calls) : calls[k].st # "thrown"
    /\ phase = "done" =>
        LET r == Get(response) IN
          /\ r.marketConfig =
                IF "marketConfig" \in NullInitial THEN EmptyMap
                ELSE (<< 5 >> :> MarketConfig(2, 4, 5)) @@ (<< 4, 5 >> :> MarketConfig(2, 4, 5))
                     @@ (<< 1, 5 >> :> MarketConfig(1, 1, 5)) @@ (<< 6 >> :> MarketConfig(3, 0, 6))
          /\ r.competitions =
                IF "competitions" \in NullInitial THEN EmptyMap ELSE (7 :> 1)
          /\ r.competitionNames =
                IF "competitions" \in NullInitial THEN EmptyMap ELSE (7 :> "L7") @@ (8 :> "L8")
          /\ r.competitionIcons =
                IF "competitions" \in NullInitial THEN EmptyMap
                ELSE (7 :> << "country-flags", "tr" >>)
          /\ \A t \in {"playPercentages", "matchPopularity"} :
                IF t \in NullInitial THEN r[t] = EmptyMap ELSE r[t][1] = t
          /\ "events" \in NullInitial => r.data = << >>
          /\ Len(enrichedMatches) = Len(events)
          /\ events = SelectSeq(UpstreamEvents, LAMBDA ev : PassesInitial(ev, includeUpcoming))
          /\ r.data = FilterAndSort(enrichedMatches, params.sort, params.competition,
                                    params.status)

\* a finished run with events in its data after the market-config and the
\* competitions fetch, and one of the percentage fetches, returned null
C12_Witness ==
    /\ phase = "done"
    /\ {"marketConfig", "competitions"} \subseteq NullInitial
    /\ \E t \in {"playPercentages", "matchPopularity"} : t \in NullInitial
    /\ "events" \notin NullInitial
    /\ Len(ResponseData) > 0

\* the events a step appends to the enriched list
Appended == (Len(enrichedMatches) + 1)..Len(enrichedMatches')

\* C13: when the detail call of an event returned a non-empty markets
\* array, the markets of the merged event are that array, element for
\* element.
C13_DetailMarketsReplace ==
    [][ \A ev \in Appended :
          LET details == DataOf(BatchResult("detail", ev)) IN
            (IsSome(details) /\ IsSome(DetailMarketsOf(details))
                             /\ Len(Get(DetailMarketsOf(details))) > 0)
              => enrichedMatches'[ev].m = Get(DetailMarketsOf(details)) ]_vars

\* an event listed with three markets is merged with the two of its detail
C13_Witness ==
    \E k \in 1..Len(enrichedMatches) :
        /\ events[k].m = Some(<< 11, 12, 13 >>)
        /\ enrichedMatches[k].m = DetailMarkets(Get(events[k].i))

\* C14: when a type-4 config and a config of another type would both be
\* stored under a key, the lookup map holds a type-4 config under that
\* key, in whichever order the upstream lists the two.
C14_MainTypeWins ==
    phase = "done" =>
        LET cfgs == marketConfigs(initial["marketConfig"])
            map  == Get(response).marketConfig
        IN  \A a, b \in 1..Len(cfgs) :
              (cfgs[a].mt = MainMarketType /\ cfgs[b].mt # MainMarketType) =>
                 \A key \in ConfigKeys(cfgs[a]) \cap ConfigKeys(cfgs[b]) :
                     key \in DOMAIN map /\ map[key].mt = MainMarketType

\* a config of another type is listed ahead of the type-4 config of its
\* sub type, and the key of the sub type holds the type-4 config
C14_Witness ==
    /\ phase = "done"
    /\ LET cfgs == marketConfigs(initial["marketConfig"])
           map  == Get(response).marketConfig
       IN  \E a, b \in 1..Len(cfgs) :
             /\ b < a
             /\ cfgs[a].mt = MainMarketType /\ cfgs[b].mt # MainMarketType
             /\ cfgs[a].mst # 0 /\ cfgs[a].mst = cfgs[b].mst
             /\ map[<< cfgs[a].mst >>] = cfgs[a]

\* C15: a route handler always has an answer to give once getPayload has
\* settled; the answer to a rejected getPayload is status 500 with the error
\* body alone, the answer to a resolved one is status 200 with the payload,
\* as it is or mapped to the v2 shape.
C15_RouteAnswers ==
    /\ (phase \in {"done", "rejected"} /\ reply = None) => ENABLED (GET \/ GETMatchesV2)
    /\ IsSome(reply) =>
          IF phase = "rejected"
          THEN Get(reply) = [status |-> InternalServerError, body |-> ErrorBody]
          ELSE /\ phase = "done"
               /\ Get(reply).status = Ok
               /\ \/ Get(reply).body = Get(response)
                  \/ /\ DOMAIN Get(reply).body = {"matches", "meta"}
                     /\ Len(Get(reply).body.matches) = Len(ResponseData)
                     /\ \A k \in 1..Len(ResponseData) :
                           /\ Get(reply).body.matches[k].id = ResponseData[k].i
                           /\ Get(reply).body.matches[k].markets = ResponseData[k].m
                     /\ Get(reply).body.meta.marketConfig = Get(response).marketConfig

\* a rejected run answered with 500
C15_Witness ==
    /\ phase = "rejected"
    /\ IsSome(reply)
    /\ Get(reply).status = InternalServerError

\* the enriched events the filters of the request are to keep
Kept ==
    {k \in 1..Len(enrichedMatches) :
        LET e == enrichedMatches[k]
            status == Nullish(e.s, 0)
        IN  /\ params.competition = "all" \/ StringOfCi(e.ci) = params.competition
            /\ \/ params.status = "all"
               \/ params.status = "live" /\ status > 0 /\ status # HalfTimeStatus
               \/ params.status = "ht" /\ status = HalfTimeStatus
               \/ params.status = "upcoming" /\ status = 0}

\* what tells the enriched events of a run apart, and what the filters
\* and the sort read
Key(e) == << e.i, e.s, e.ci, e.d, e.hn, e.m >>

\* how many records of the sequence seq have the key of e
Count(seq, e) == Cardinality({j \in 1..Len(seq) : Key(seq[j]) = Key(e)})

\* C16: the data of the response holds exactly the enriched events that
\* pass the competition filter and the status filter of the request, each
\* as often as the enriched list holds it.
C16_DataIsFiltered ==
    phase = "done" =>
        /\ Len(ResponseData) = Cardinality(Kept)
        /\ \A k \in Kept :
              Count(ResponseData, enrichedMatches[k])
                = Cardinality({j \in Kept : Key(enrichedMatches[j]) = Key(enrichedMatches[k])})

\* under "ht" an event at half time is in the data and one in the second
\* half is not
C16_Witness ==
    /\ phase = "done"
    /\ params.status = "ht"
    /\ \E j, k \in 1..Len(enrichedMatches) :
          /\ enrichedMatches[j].s = Some(HalfTimeStatus)
          /\ Count(ResponseData, enrichedMatches[j]) = 1
          /\ enrichedMatches[k].s = Some(HalfTimeStatus + 1)
          /\ Count(ResponseData, enrichedMatches[k]) = 0

\* the events a and b of the data, a ahead of b, are in the order of mode
InOrder(a, b, mode) ==
    CASE mode = "time"   -> Nullish(a.d, 0) <= Nullish(b.d, 0)
      [] mode = "league" -> Nullish(a.ci, 0) <= Nullish(b.ci, 0)
      [] mode = "home"   -> NameRank(a.hn) <= NameRank(b.hn)
      [] OTHER           -> Len(a.m) >= Len(b.m)

\* C17: the data of the response is the filtered list rearranged into the
\* order of the sort mode: kickoff ascending for "time", competition id
\* ascending for "league", home-team name ascending for "home", number of
\* markets descending for "markets" and for any other value.
C17_DataIsSorted ==
    phase = "done" =>
        /\ \A j, k \in 1..Len(ResponseData) :
              j < k => InOrder(ResponseData[j], ResponseData[k], params.sort)
        /\ Len(ResponseData) = Cardinality(Kept)
        /\ \A k \in Kept : Count(ResponseData, enrichedMatches[k]) >= 1

\* with an unrecognised sort value an event with seven markets, listed
\* after one with three, comes first in the data
C17_Witness ==
    /\ phase = "done"
    /\ params.sort = "unknown"
    /\ Len(ResponseData) = 2
    /\ Len(ResponseData[1].m) = 7 /\ Len(ResponseData[2].m) = 3
    /\ Len(enrichedMatches[1].m) = 3

\* the fields the pipeline assembles itself
AssembledFields ==
    { "data", "competitions", "competitionNames", "competitionIcons",
      "playPercentages", "matchPopularity", "marketConfig" }

\* the raw event-list response, {} when the fetch returned null
RawEvents == IF IsSome(initial["events"]) THEN Get(initial["events"]) ELSE EmptyMap

\* C18: the response has the seven assembled fields and, under its own
\* name and with its own value, every other top-level field of the raw
\* event-list response, and no further field.
C18_RawFieldsPassThrough ==
    phase = "done" =>
        /\ DOMAIN Get(response) = AssembledFields \cup DOMAIN RawEvents
        /\ \A f \in DOMAIN RawEvents \ AssembledFields : Get(response)[f] = RawEvents[f]

\* a response with events in its data that carries the isSuccess and the
\* message of the raw event-list response
C18_Witness ==
    /\ phase = "done"
    /\ Len(ResponseData) > 0
    /\ {"isSuccess", "message"} \subseteq DOMAIN RawEvents
    /\ Get(response).isSuccess = RawEvents.isSuccess
    /\ Get(response).message = "ok"

\* call k was made through fetchJson: it is neither a sportradar call nor
\* the null of an event without id
IsFetchJsonCall(k) ==
    /\ calls[k].typ # "sportradar"
    /\ calls[k].typ = "events" \/ calls[k].typ \in RefTypes \/ IsSome(calls[k].id)

ReferenceUrls == {Url(t, None) : t \in RefTypes}

\* C19: a fetchJson call with ttlMs omitted or <= 0 sends its request and,
\* when the response arrives, leaves the cache as it was; the event-list
\* call and the per-event calls are made without TTL, and the cache never
\* holds an entry for a URL other than the four reference URLs.
C19_NoTtlNoCache ==
    /\ [](/\ \A k \in 1..Len(calls) :
               IsFetchJsonCall(k) =>
                  /\ calls[k].ttl <= 0 => calls[k].net
                  /\ calls[k].typ \notin RefTypes => calls[k].ttl <= 0
          /\ DOMAIN cache \subseteq ReferenceUrls)
    /\ [][ \A k \in 1..Len(calls) :
              (k <= Len(calls') /\ calls[k].st = "pending" /\ calls'[k].st # "pending"
                               /\ calls[k].ttl <= 0)
                => cache' = cache ]_vars

\* a finished run: the event list and the detail of an event were fetched,
\* and the cache holds the four reference URLs and nothing else
C19_Witness ==
    /\ phase = "done"
    /\ DOMAIN cache = ReferenceUrls
    /\ Len(UpstreamEvents) > 0
    /\ \E k \in 1..Len(calls) :
          calls[k].typ = "detail" /\ calls[k].net /\ calls[k].st = "value"

\* the cache entry of url, None when there is none
EntryOf(c, url) == IF url \in DOMAIN c THEN Some(c[url]) ELSE None

\* C20: with fetchJson calls for several keys in flight, a step changes the
\* cache entry of a key only when a call for that key receives its
\* response in that step, and then to the body and expiry of that call; no
\* other call changes in that step, and a call that is answered from the
\* cache gets the value stored under its own key.
C20_KeysIndependent ==
    [][ /\ \A url \in DOMAIN cache \cup DOMAIN cache' :
              EntryOf(cache', url) # EntryOf(cache, url) =>
                 \E k \in 1..Len(calls) :
                    /\ Url(calls[k].typ, calls[k].id) = url
                    /\ calls[k].st = "pending" /\ calls'[k].st = "value"
                    /\ cache'[url] = [value |-> Get(calls'[k].val),
                                      expires |-> now + calls[k].ttl]
                    /\ \A j \in 1..Len(calls) : j # k => calls'[j] = calls[j]
        /\ Len(calls') = Len(calls) + 1 =>
              LET c == calls'[Len(calls')] IN
                 ~c.net => c.val = Some(cache[Url(c.typ, c.id)].value) ]_vars

\* calls for two keys were in flight together: the later call was answered
\* first, and each key holds the body and the expiry of its own call
C20_Witness ==
    \E j, k \in 1..Len(calls) :
        /\ j < k
        /\ Url(calls[j].typ, calls[j].id) # Url(calls[k].typ, calls[k].id)
        /\ calls[j].net /\ calls[j].st = "value"
        /\ calls[k].net /\ calls[k].st = "value"
        /\ calls[j].ttl = PercentagesTtl /\ calls[k].ttl = PercentagesTtl
        /\ cache[Url(calls[k].typ, calls[k].id)].expires
              < cache[Url(calls[j].typ, calls[j].id)].expires
        /\ cache[Url(calls[j].typ, calls[j].id)].value = Get(calls[j].val)
        /\ cache[Url(calls[k].typ, calls[k].id)].value = Get(calls[k].val)

\* C21 (as claimed): getPayload settles, resolved or rejected, only after
\* every request it issued has settled; no request is abandoned in flight.
C21_SettlesAfterEveryRequest ==
    phase \in {"done", "rejected"} => InFlight = 0

\* C22: the holder has at most one token and one expiry; a call of
\* fetchSportradarToken returns a token, leaves that token as the held one
\* and, whenever SPORTRADAR_TOKEN is configured, returns the configured
\* token, whatever token was held before the call.
C22_HeldTokenIsReturned ==
    /\ Len(sportradarToken) <= 1
    /\ tokenExpiry \in Nat
    /\ phase = "token" =>
          /\ IsSome(sportradarTokenValue)
          /\ sportradarToken = sportradarTokenValue
          /\ IsSome(envToken) => sportradarTokenValue = envToken

\* the configured token was returned and is held although the default
\* token, held from an earlier call, has not expired yet
C22_Witness ==
    /\ phase = "token"
    /\ IsSome(envToken)
    /\ sportradarTokenValue = envToken
    /\ sportradarToken = envToken
    /\ ~IsSome(ExpMatch(Get(envToken)))
    /\ tokenExpiry = HardcodedExp
    /\ tokenExpiry > now

\* the flag-image path of a country code written in lower case
FlagPath(code) == << "country-flags", code >>

\* C23: for every competition of the list with a non-zero id, the icon map
\* holds under that id the flag-image path of its country code in lower
\* case ("TR" gives tr), the name map its name and the parent map its parent
\* id, each when the competition has one, and no entry otherwise; the three
\* maps have no key but the non-zero ids of the list, so a competition
\* without an id adds nothing.
C23_CompetitionMaps ==
    phase = "done" =>
        LET comps == Competitions(initial["competitions"])
            r == Get(response)
        IN  /\ \A k \in 1..Len(comps) :
                  comps[k].i # 0 =>
                     /\ Lookup(r.competitionIcons, comps[k].i) =
                           (CASE comps[k].cid \in {Some("TR"), Some("Tr"), Some("tr")}
                                   -> Some(FlagPath("tr"))
                              [] OTHER -> None)
                     /\ Lookup(r.competitionNames, comps[k].i) = comps[k].n
                     /\ Lookup(r.competitions, comps[k].i) =
                           (IF comps[k].p = Some(0) THEN None ELSE comps[k].p)
            /\ \A f \in {"competitionIcons", "competitionNames", "competitions"} :
                  DOMAIN r[f] \subseteq {comps[k].i : k \in 1..Len(comps)} \ {0}

\* a competition without id, with name, parent and country, is listed
\* ahead of competition 7 of country "TR": the maps hold 7 alone
C23_Witness ==
    /\ phase = "done"
    /\ LET comps == Competitions(initial["competitions"])
           r == Get(response)
       IN  /\ Len(comps) = 2
           /\ comps[1] = Competition(0, Some(1), Some("L"), Some("TR"))
           /\ comps[2] = Competition(7, Some(1), Some("L"), Some("TR"))
           /\ r.competitionIcons = (7 :> FlagPath("tr"))
           /\ r.competitionNames = (7 :> "L")
           /\ r.competitions = (7 :> 1)

\* the calls for url that receive a 2xx answer with a body in this step,
\* were made with a positive TTL and had sent a request
Writers(url) ==
    {k \in 1..Len(calls) :
        /\ Url(calls[k].typ, calls[k].id) = url
        /\ calls[k].ttl > 0 /\ calls[k].net
        /\ calls[k].st = "pending" /\ calls'[k].st = "value"}

\* C24 (as claimed): entries are created only by a successful positive-TTL
\* fetch and never removed, and an entry is overwritten only by a
\* successful fetch for its key once it has expired: a live entry is never
\* overwritten.
C24_Original ==
    [][ /\ DOMAIN cache \subseteq DOMAIN cache'
        /\ \A url \in DOMAIN cache' :
              EntryOf(cache', url) # EntryOf(cache, url) =>
                 /\ Writers(url) # {}
                 /\ url \in DOMAIN cache => cache[url].expires <= now ]_vars

\* C24 (amended): entries are created only by a successful positive-TTL
\* fetch and never removed, and an entry is overwritten only by a
\* successful positive-TTL fetch for its key whose request was sent on a
\* cache miss, with the body and the expiry of that fetch; a call that
\* found the entry live sends no request and overwrites nothing.  The
\* overwritten entry itself may be live: it is when the request was sent
\* before the entry was stored.
C24_WrittenBySuccessfulMiss ==
    [][ /\ DOMAIN cache \subseteq DOMAIN cache'
        /\ \A url \in DOMAIN cache' :
              EntryOf(cache', url) # EntryOf(cache, url) =>
                 \E k \in Writers(url) :
                    cache'[url] = [value |-> Get(calls'[k].val),
                                   expires |-> now + calls[k].ttl]
        /\ \A k \in 1..Len(calls) :
              (k <= Len(calls') /\ ~calls[k].net) => calls'[k] = calls[k]
        /\ Len(calls') = Len(calls) + 1 =>
              LET c == calls'[Len(calls')] IN
                 (c.ttl > 0 /\ Url(c.typ, c.id) \in DOMAIN cache
                            /\ cache[Url(c.typ, c.id)].expires > now) => ~c.net ]_vars

\* two requests for one URL were in flight together; the answer to the
\* second came while the entry stored from the first was live, and
\* replaced it
C24_Witness ==
    \E j, k \in 1..Len(calls) :
        /\ j # k
        /\ Url(calls[j].typ, calls[j].id) = Url(calls[k].typ, calls[k].id)
        /\ calls[j].net /\ calls[j].st = "value" /\ calls[j].ttl > 0
        /\ calls[k].net /\ calls[k].st = "value" /\ calls[k].ttl > 0
        /\ "message" \in DOMAIN Get(calls[j].val)
        /\ "message" \in DOMAIN Get(calls[k].val)
        /\ Get(calls[j].val).message < Get(calls[k].val).message
        /\ Get(calls[k].val).message < Get(calls[j].val).message + calls[j].ttl
        /\ cache[Url(calls[k].typ, calls[k].id)].value = Get(calls[k].val)

\* the fields a plain per-event call is attached to, with its call type
PlainFields ==
    { << "headToHead", "headToHead" >>, << "lastMatches", "lastMatches" >>,
      << "iddaaAnalysis", "analysis" >>, << "missingPlayers", "missingPlayers" >>,
      << "refereeStats", "refereeStats" >> }

\* the calls of type typ standing for the event at index ev
SlotsOf(typ, ev) == {k \in 1..Len(calls) : calls[k].typ = typ /\ calls[k].ev = ev}

\* C25: while a batch is in flight there is exactly one result slot for each
\* of its events and each call type, and its request carries the id of that
\* event; in the merged list every enrichment value and every market of an
\* event with an id comes from that event's own list entry or from a call
\* for that event's id (live stats: betradar id), in whatever order the
\* responses arrived.
C25_OwnResultsOnly ==
    /\ phase = "batch" =>
          \A ev \in (i + 1)..BatchLast(i, Len(events)) :
             \A t \in 1..9 :
                LET typ == IF t = 9 THEN "sportradar" ELSE EventTypes[t] IN
                   /\ Cardinality(SlotsOf(typ, ev)) = 1
                   /\ \A k \in SlotsOf(typ, ev) :
                         calls[k].net =>
                            calls[k].id = (IF t = 9 THEN events[ev].bri
                                           ELSE getEventId(events[ev]))
    /\ \A k \in 1..Len(enrichedMatches) :
          LET e == enrichedMatches[k]
              id == events[k].i
          IN  /\ \A pf \in PlainFields :
                    IsSome(e[pf[1]]) => Some(Get(e[pf[1]])[2]) = id
              /\ IsSome(e.statistics) => Some(Get(e.statistics).tag[2]) = id
              /\ IsSome(e.standings) => Some(Get(e.standings).overAll[2]) = id
              /\ (IsSome(e.sportradar) /\ IsSome(Prop(Get(e.sportradar), "tag")))
                    => Some(Get(e.sportradar).tag[2]) = events[k].bri
              /\ \A x \in 1..Len(e.m) :
                    \/ IsSome(events[k].m) /\ e.m = Get(events[k].m)
                    \/ Some(e.m[x] \div 10) = id

\* a finished run over the events 101 and 102 in one batch: each carries
\* the markets of its own detail, its own statistics and its own live stats
C25_Witness ==
    /\ phase = "done"
    /\ Len(enrichedMatches) = 2
    /\ Len(batches) = 1
    /\ \A k \in 1..2 :
          /\ enrichedMatches[k].i = Some(100 + k)
          /\ enrichedMatches[k].m = DetailMarkets(100 + k)
          /\ enrichedMatches[k].statistics # None
          /\ Get(enrichedMatches[k].statistics).tag[2] = 100 + k
          /\ enrichedMatches[k].refereeStats = Some(<< "refereeStats", 100 + k >>)
    /\ enrichedMatches[1].sportradar = Some([tag |-> << "doc", 9001 >>])

\* C26: the merge of an event sets each of headToHead, lastMatches,
\* iddaaAnalysis, missingPlayers and refereeStats to the data of its call
\* when the call returned data; when the call returned null, or a body
\* without data, the field is as the event list and the detail merge left
\* it, unset if they left none, and the event is appended all the same.
C26_PlainFieldsOnlyFromData ==
    [][ /\ \A ev \in Appended :
              \A pf \in PlainFields :
                 LET res     == BatchResult(pf[2], ev)
                     details == BatchResult("detail", ev)
                     before  ==
                        IF /\ IsSome(details) /\ IsSome(Get(details).data)
                           /\ pf[1] \in DOMAIN Get(Get(details).data)
                        THEN Get(Get(details).data)[pf[1]]
                        ELSE IF pf[1] \in DOMAIN events[ev] THEN events[ev][pf[1]]
                        ELSE None
                 IN  enrichedMatches'[ev][pf[1]] =
                        (IF IsSome(res) /\ IsSome(Get(res).data) THEN Get(res).data
                         ELSE before)
        /\ (phase = "batch" /\ StageSettled /\ ~StageThrown /\ phase' # phase)
              => (phase' = "done" /\ Len(enrichedMatches') = Len(events)) ]_vars

\* a finished run: the head-to-head call of event 101 returned null and the
\* event keeps the block it was listed with, next to the last matches its
\* call returned
C26_Witness ==
    /\ phase = "done"
    /\ \E k \in 1..Len(enrichedMatches) :
          /\ enrichedMatches[k].i = Some(101)
          /\ enrichedMatches[k].headToHead = Some(<< "listed headToHead", 101 >>)
          /\ enrichedMatches[k].lastMatches = Some(<< "lastMatches", 101 >>)
          /\ enrichedMatches[k].iddaaAnalysis = Some(<< "analysis", 101 >>)

StandingsAfterDetail(ev) ==
    LET details == BatchResult("detail", ev) IN
      IF /\ IsSome(details) /\ IsSome(Get(details).data)
         /\ "standings" \in DOMAIN Get(Get(details).data)
      THEN Get(Get(details).data).standings
      ELSE IF "standings" \in DOMAIN events[ev] THEN events[ev].standings
      ELSE None

\* C28: the standings of a merged event are the data of the standings call
\* when it returned data, whatever the statistics carry; else, when the
\* event has no standings after the detail merge and the statistics call
\* returned data with a tournament standings model, { overAll: model };
\* else what the detail merge left, none included.
C28_StandingsPrecedence ==
    [][ \A ev \in Appended :
          LET direct == BatchResult("standings", ev)
              stats  == BatchResult("statistics", ev)
              model  == IF IsSome(stats) /\ IsSome(Get(stats).data)
                        THEN Get(Get(stats).data).tournamentStandingsModel ELSE None
          IN  enrichedMatches'[ev].standings =
                 (IF IsSome(direct) /\ IsSome(Get(direct).data) THEN Get(direct).data
                  ELSE IF StandingsAfterDetail(ev) = None /\ IsSome(model)
                       THEN Some([overAll |-> Get(model)])
                  ELSE StandingsAfterDetail(ev)) ]_vars

\* the standings call of event 104 returned null: the event has the
\* standings of its detail, not those of the model its statistics carry
C28_Witness ==
    \E k \in 1..Len(enrichedMatches) :
        /\ enrichedMatches[k].i = Some(104)
        /\ enrichedMatches[k].standings = Some([overAll |-> << "detail standings", 104 >>])
        /\ IsSome(enrichedMatches[k].statistics)
        /\ Get(enrichedMatches[k].statistics).tournamentStandingsModel = Some(<< "ts", 104 >>)

\* C29: when the live-stats call of an event returned a response, the
\* merged event's sportradar field is the first element of the response's
\* doc list if the list has one, else the response's data if it has any,
\* else the response itself; when the call returned null, or was not
\* made, the field is as the event list and the detail left it: unset.
C29_LiveStatsUnwrapped ==
    [][ \A ev \in Appended :
          LET sr      == BatchResult("sportradar", ev)
              details == BatchResult("detail", ev)
              before  ==
                 IF /\ IsSome(details) /\ IsSome(Get(details).data)
                    /\ "sportradar" \in DOMAIN Get(Get(details).data)
                 THEN Get(Get(details).data).sportradar
                 ELSE IF "sportradar" \in DOMAIN events[ev] THEN events[ev].sportradar
                 ELSE None
          IN  /\ before = None
              /\ enrichedMatches'[ev].sportradar =
                    (IF ~IsSome(sr) THEN before
                     ELSE IF IsSome(Get(sr).doc) /\ Len(Get(Get(sr).doc)) >= 1
                          THEN Some(Get(Get(sr).doc)[1])
                     ELSE IF IsSome(Get(sr).data) THEN Some(Get(Get(sr).data))
                     ELSE sr) ]_vars

\* the live stats of one event came in the direct-data envelope and those
\* of another event were not fetched
C29_Witness ==
    \E j, k \in 1..Len(enrichedMatches) :
        /\ events[j].bri = Some(9001)
        /\ enrichedMatches[j].sportradar = Some([tag |-> << "data", 9001 >>])
        /\ enrichedMatches[k].sportradar = None

\* the keys a config would be registered under: its sub type and, when it
\* has a type, type_subtype; none without a sub type
WouldRegister(config) ==
    IF config.mst = 0 THEN {}
    ELSE {<< config.mst >>} \cup (IF config.mt = 0 THEN {} ELSE {<< config.mt, config.mst >>})

\* the positions of the configs that would register key, main-typed or not
Claimants(cfgs, key, main) ==
    {k \in 1..Len(cfgs) : key \in WouldRegister(cfgs[k]) /\ (cfgs[k].mt = MainMarketType) = main}

\* C30: the market-config map holds, under every key some config would
\* register, the earliest main-typed config that would register it in
\* upstream order, or without one the earliest config that would; so of two
\* configs of one class the later never takes a key from the earlier.  It
\* has no other key, and a config without sub type is under no key.
C30_FirstWriteWins ==
    phase = "done" =>
        LET cfgs == marketConfigs(initial["marketConfig"])
            map  == Get(response).marketConfig
            keys == UNION {WouldRegister(cfgs[k]) : k \in 1..Len(cfgs)}
            First(ks) == CHOOSE k \in ks : \A j \in ks : k <= j
        IN  /\ DOMAIN map = keys
            /\ \A key \in keys :
                  map[key] = IF Claimants(cfgs, key, TRUE) # {}
                             THEN cfgs[First(Claimants(cfgs, key, TRUE))]
                             ELSE cfgs[First(Claimants(cfgs, key, FALSE))]
            /\ \A key \in keys : \A main \in BOOLEAN :
                  \A a, b \in Claimants(cfgs, key, main) :
                     a < b => map[key] # cfgs[b]
            /\ \A key \in DOMAIN map : map[key].mst # 0

\* two configs of no main type share sub type 5, the one without type
\* listed first, and a main-typed config without sub type follows: the key
\* of the sub type holds the first, and the third is under no key
C30_Witness ==
    /\ phase = "done"
    /\ marketConfigs(initial["marketConfig"]) =
          << MarketConfig(3, 0, 5), MarketConfig(1, 1, 5), MarketConfig(4, MainMarketType, 0) >>
    /\ Get(response).marketConfig =
          (<< 5 >> :> MarketConfig(3, 0, 5)) @@ (<< 1, 5 >> :> MarketConfig(1, 1, 5))

\* the indexes of the listed events that the initial status filter keeps
KeptIdx ==
    SelectSeq([k \in 1..Len(AllEvents(initial["events"])) |-> k],
              LAMBDA k : PassesInitial(AllEvents(initial["events"])[k], includeUpcoming))

\* C31: after the post-processing of the event list, an event that came
\* without an inline score block and whose id has an entry in the side
\* score map carries that entry as its score; an event that came with an
\* inline score block keeps it, and an event without a usable id gets none.
C31_ScoresFromSideMap ==
    phase # "initial" /\ DOMAIN initial # {} =>
        /\ Len(events) = Len(KeptIdx)
        /\ \A j \in 1..Len(events) :
              LET raw == AllEvents(initial["events"])[KeptIdx[j]]
                  map == scoreMap(initial["events"])
              IN  /\ IsSome(Prop(raw, "sc")) => Prop(events[j], "sc") = raw.sc
                  /\ (~IsSome(Prop(raw, "sc")) /\ TruthyNum(raw.i)
                                                /\ Get(raw.i) \in DOMAIN map)
                        => Prop(events[j], "sc") = Some(map[Get(raw.i)])
                  /\ (~IsSome(Prop(raw, "sc"))
                        /\ (~TruthyNum(raw.i) \/ Get(raw.i) \notin DOMAIN map))
                        => Prop(events[j], "sc") = None

\* three events went through the post-processing with a side map that has
\* an entry for each: one took its entry, one kept its inline block, and
\* the one with id 0 got none
C31_Witness ==
    /\ phase = "batch"
    /\ Len(events) = 3
    /\ {0, 101, 103} \subseteq DOMAIN scoreMap(initial["events"])
    /\ \E j, k, l \in 1..3 :
          /\ events[j].i = Some(101) /\ Prop(events[j], "sc") = Some(<< "side score", 101 >>)
          /\ events[k].i = Some(103) /\ Prop(events[k], "sc") = Some(<< "inline score", 103 >>)
          /\ events[l].i = Some(0) /\ Prop(events[l], "sc") = None

\* C32: when includeUpcoming is false, every event in the data of the
\* response has a status greater than 0, also after the detail response
\* has been merged onto the event.
C32_DataStatusPositive ==
    (phase = "done" /\ ~includeUpcoming) =>
        \A k \in 1..Len(ResponseData) : Nullish(ResponseData[k].s, 0) > 0

\* C32 (amended): when includeUpcoming is false, every event that is
\* enriched was listed with a status greater than 0, and every record of the
\* data is one of the enriched records; the status of an enriched record is
\* the status of the detail data whenever that carries one, which may be 0,
\* and the listed status otherwise.
C32_ListedStatusPositive ==
    /\ [](~includeUpcoming => \A k \in 1..Len(events) : Nullish(events[k].s, 0) > 0)
    /\ [](\A k \in 1..Len(ResponseData) :
            \E j \in 1..Len(enrichedMatches) : Key(ResponseData[k]) = Key(enrichedMatches[j]))
    /\ [][ \A ev \in Appended :
             LET details == DataOf(BatchResult("detail", ev))
             IN  enrichedMatches'[ev].s =
                    IF IsSome(details) /\ IsSome(Get(details).s)
                    THEN Get(details).s ELSE events[ev].s ]_vars

\* without includeUpcoming, an event listed with status 1 is in the data
\* with the status 0 of its detail
C32_Witness ==
    /\ phase = "done"
    /\ ~includeUpcoming
    /\ \E k \in 1..Len(ResponseData), j \in 1..Len(events) :
          /\ ResponseData[k].i = events[j].i
          /\ events[j].s = Some(1)
          /\ ResponseData[k].s = Some(0)

\* C33: whenever a token is held, the stored expiry is the one embedded in
\* that same token (exp=<seconds>; the clock of the model counts seconds),
\* after any sequence of calls and changes of the configured token.
C33_ExpiryOfHeldToken ==
    IsSome(sportradarToken) =>
        /\ IsSome(ExpMatch(Get(sportradarToken)))
        /\ tokenExpiry = Get(ExpMatch(Get(sportradarToken)))

\* C34: in the market-config map the pipeline returns, the plain sub-type
\* key is present whenever a composite type_subtype key is; hence the
\* market lookup of the v2 route, which tries the sub-type key first, never
\* finds a market's config under the composite key.
C34_CompositeKeyNeverResolves ==
    phase = "done" =>
        /\ \A k \in DOMAIN Get(response).marketConfig :
              Len(k) = 2 => << k[2] >> \in DOMAIN Get(response).marketConfig
        /\ IsSome(reply) =>
              LET key == ConfigKeyOf(Get(reply).market, Get(response).marketConfig)
              IN  /\ IsSome(key) => Len(Get(key)) = 1
                  /\ Get(reply).mapped.config =
                        IF TruthyNum(Get(reply).market.st)
                        THEN Lookup(Get(response).marketConfig,
                                    << Get(Get(reply).market.st) >>)
                        ELSE None

\* a market of type 4 and sub type 5 was mapped against a map that holds
\* both the key 5 and the key 4_5, and got the config stored under 5
C34_Witness ==
    /\ phase = "done"
    /\ IsSome(reply)
    /\ Get(reply).market = [t |-> Some(MainMarketType), st |-> Some(5)]
    /\ {<< 5 >>, << MainMarketType, 5 >>} \subseteq DOMAIN Get(response).marketConfig
    /\ Get(reply).mapped.config = Some(Get(response).marketConfig[<< 5 >>])

\* the in-memory list holds exactly the records of the store
InSync ==
    /\ Len(bets) = Cardinality(DOMAIN store)
    /\ {bets[k].id : k \in 1..Len(bets)} = DOMAIN store
    /\ \A k \in 1..Len(bets) : bets[k] = store[bets[k].id]

\* C35: on an initialised tracker, after any sequence of addBet,
\* updateResult, deleteBet, clearAll and importData calls, resolved or
\* rejected, the in-memory list holds exactly the records of the store, and
\* a call that rejected changed neither.
C35_BetsMirrorStore ==
    Initialised =>
        /\ InSync
        /\ lastCall.outcome = "rejected" => ~lastCall.changed

\* C36: every tracker a getTracker call resolved with had an open
\* database, whatever the interleaving of the calls and the outcome of
\* init, and at most one tracker is ever constructed.
C36_ResolvedTrackerIsOpen ==
    /\ created <= 1
    /\ \A c \in 1..MaxCallers : callers[c].st = "resolved" => callers[c].open

\* the Authorization header is the Basic scheme, in any case, one space
\* and the base64 encoding of exactly username:password
ExactCredentials(authorization) ==
    /\ IsSome(authorization)
    /\ Len(Get(authorization)) > 6
    /\ Lower(SubSeq(Get(authorization), 1, 6)) = << "b", "a", "s", "i", "c", " " >>
    /\ SubSeq(Get(authorization), 7, Len(Get(authorization)))
          = Encoded(Get(username) \o << ":" >> \o Get(password))

\* C37: with both credentials configured, a request for a non-static path
\* passes the gate if and only if its Authorization header is the Basic
\* scheme followed by the base64 encoding of exactly username:password;
\* every other such request is answered 401 with the challenge.
C37_PassesWithExactCredentialsOnly ==
    ( /\ TruthyText(username) /\ TruthyText(password)
      /\ IsSome(request) /\ ~IsStatic(Get(request).pathname) ) =>
        \A gate \in {"proxyDefault", "proxy"} :
            /\ Get(verdict)[gate].next <=> ExactCredentials(Get(request).authorization)
            /\ ~Get(verdict)[gate].next => Get(verdict)[gate] = unauthorized

\* C38: the two gates give the same decision, pass or 401, for every
\* request and every configuration of the credentials.
C38_GatesAgree ==
    IsSome(verdict) => Get(verdict).proxyDefault.next = Get(verdict).proxy.next

\* the label the status-label table has for the status of an event
LabelOf(ev) == Lookup(StatusLabels, Nullish(ev.s, 0))

\* C39: the status code the "ht" filter selects, and the "live" filter
\* excludes, is the code the status-label table labels D.A (half-time),
\* and the next higher code is the one labelled 2.Y (second half).
C39_HtFilterSelectsHalfTimeLabel ==
    /\ (phase = "done" /\ params.status = "ht") =>
          \A k \in 1..Len(ResponseData) : LabelOf(ResponseData[k]) = Some("D.A")
    /\ (phase = "done" /\ params.status = "live") =>
          \A k \in 1..Len(ResponseData) : LabelOf(ResponseData[k]) # Some("D.A")
    /\ Lookup(StatusLabels, HalfTimeStatus + 1) = Some("2.Y")

====
